---- MODULE Spec2Model ----
(***************************************************************************)
(* Model of the DSVIP chat-client prototypes:                              *)
(*   - AIApiClient._make_request       (ai_api.py, 3.0.py, DeepSeekVIP.py) *)
(*   - BaseAIApiClient._make_request   (3.3.py, css2.py)                   *)
(*   - AIApiClient._prepare_headers    (ai_api.py)                         *)
(*   - Conversation                    (DeepSeekVIP.py)                    *)
(* Each component has its own specification over the shared variables; the *)
(* variables of the other components stay at their initial values.         *)
(***************************************************************************)
EXTENDS Integers, Sequences, FiniteSets, TLC

VARIABLES
    \* ---- one call of _make_request ----
    max_retries,      \* self.max_retries
    retry_delay,      \* self.retry_delay
    stream,           \* the stream argument
    attempt,          \* the loop variable of `for attempt in range(self.max_retries)`
    pc,               \* "loop" | "returned" | "raised" ("idle" in the other specifications)
    log,              \* what the call did so far: requests.request calls (with their
                      \* outcome) and time.sleep calls, in program order
    result,           \* what the caller receives: the returned value or the exception
    \* ---- one call of _prepare_headers ----
    headers,          \* the caller's headers argument (None or a dict)
    api_key,          \* self.api_key
    api_key_prefix,   \* self.api_key_prefix
    api_key_header,   \* self.api_key_header
    final_headers,    \* the returned dict
    hpc,              \* "call" | "done" ("idle" in the other specifications)
    \* ---- Conversation (DeepSeekVIP.py) ----
    model,            \* self.model
    history,          \* self.history
    turn_count,       \* self.turn_count
    max_turns,        \* self.max_turns
    hist_id,          \* the identity of the list object self.history is bound to
    payloads,         \* the message lists handed out by get_messages: the object
                      \* returned (ref) and its contents at that moment (snap)
    old_lists,        \* contents of the list objects a payload still refers to after
                      \* start_new has bound self.history to a new list
    appended,         \* the messages appended since the last start_new, in call order
    last_op,          \* the last Conversation method called
    \* ---- Conversation (3.3.py) ----
    c33_pc,           \* "run" ("idle" in the other specifications)
    c33_model,        \* self.model
    c33_model_type,   \* self.model_type
    c33_history,      \* self.history
    c33_turn_count,   \* self.turn_count
    c33_appended,     \* the messages appended since the last start_new, in call order
    c33_last_op,      \* the last Conversation method called
    \* ---- Conversation and AIChatApp (css2.py) ----
    mc_pc,            \* "run" | "crashed" ("idle" in the other specifications)
    mc_models,        \* conversation.models
    mc_history,       \* conversation.history: model -> message list
    mc_turn_count,    \* conversation.turn_count
    mc_spin,          \* the value of the max_turns spin box
    mc_workers,       \* the ApiRequestThreads that are running, in start order; listed
                      \* tells whether self.threads still holds the thread
    mc_event,         \* the last handler that ran, with its outcome
    \* ---- AIChatApp (DeepSeekVIP.py), over the Conversation variables above ----
    gui_pc,           \* "run" | "crashed" ("idle" in the other specifications)
    gui_client,       \* self.client is set
    gui_input,        \* the text of message_input
    gui_enabled,      \* send_button is enabled and message_input is editable
    gui_thread,       \* "none" | "running": the ApiRequestThread of the last send
    gui_spin,         \* the value of turns_spin
    gui_combo,        \* the current text of model_combo
    gui_event,        \* the last handler that ran, with its outcome
    \* ---- Streaming decoders (1.0.py, 1.1.py, 1.2.py, 3.5.py, 3.6.py) ----
    sd_pc,            \* "reading" | "ended" ("idle" in the other specifications)
    sd_decoder,       \* which program's decoder runs
    sd_stream,        \* the lines response.iter_lines() delivers
    sd_pos,           \* how many of them the loop has taken
    sd_out,           \* what the decoder has produced (yielded, emitted, printed),
                      \* each fragment with the line it came from
    \* ---- DeepSeekClient.generate and its context (1.2.py) ----
    g12_pc,           \* "ready" | "generator" ("idle" in the other specifications)
    g12_context,      \* self.context
    g12_sent,         \* payload["messages"] of the last request
    g12_call,         \* the arguments of the last generate call, and how it ended
    g12_gen,          \* the generator the last streaming call returned, not yet consumed
    g12_calls,        \* how many generate calls were made
    g12_turns,        \* u_1, a_1, ..., u_n, a_n of the calls since the context was empty
    g12_clean,        \* every call since then was a successful non-streaming call with
                      \* inherit_context, given exactly one user message
    \* ---- Doubao stream handlers (3.5.py, 3.6.py) ----
    rs_pc,            \* "reading" | "ended" | "failed" ("idle" in the other specifications)
    rs_handler,       \* which program's handler runs
    rs_chunks,        \* the chunks the SDK's stream delivers
    rs_pos,           \* how many of them the loop has taken
    rs_out,           \* the fragments emitted, each with the chunk it came from
    \* ---- DeepSeekClient.generate (1.0.py) ----
    g10_pc,           \* "called" | "posted" | "returned" | "raised" ("idle" elsewhere)
    g10_stream,       \* the stream argument
    g10_outcome,      \* what requests.post does: a response, or RequestException
    g10_bound,        \* the local variable response is bound
    g10_result,       \* what the call returned or raised
    \* ---- AIChatApp (3.6.py) ----
    w36_pc,           \* "run" | "crashed" ("idle" in the other specifications)
    w36_checks,       \* the models whose check box is checked
    w36_stream,       \* stream_check is checked
    w36_sends,        \* how many messages were sent
    w36_workers,      \* the StreamRequestThreads that are running, in start order
    w36_transcript,   \* the blocks of chat_history
    \* ---- AIChatApp and ApiRequestThread (css2.py): the request bodies ----
    mb_pc,            \* "run" | "crashed" ("idle" in the other specifications)
    mb_models,        \* Conversation.models
    mb_history,       \* Conversation.history: model -> its list of messages
    mb_turn_count,    \* Conversation.turn_count
    mb_spin,          \* the value of the max_turns spin box
    mb_workers,       \* the ApiRequestThreads that are running, in start order
    \* ---- DeepSeekChatClient (1.1.py) ----
    h11_pc,           \* "update" | "prompt" | "streaming" | "exited" | "crashed" ("idle" elsewhere)
    h11_keep_context, \* self.keep_context
    h11_stream,       \* self.stream
    h11_history,      \* self.history
    h11_appended,     \* every message handed to _update_history, in order
    h11_dialog,       \* the user inputs and the model's replies so far, in order
    h11_prior,        \* h11_dialog as it was when the last chat call was made
    h11_sent,         \* the messages of the last chat call
    h11_gen,          \* the generator of _handle_stream_response
    h11_out,          \* what the generator yielded in this turn
    h11_turns,        \* how many inputs were sent
    \* ---- AIApiClient.run_conversation (3.0.py) ----
    r30_pc,           \* "input" | "ended" ("idle" in the other specifications)
    r30_max_turns,    \* the max_turns argument
    r30_history,      \* self.conversation_history
    r30_turn_count,   \* the local turn_count
    r30_replies,      \* how many assistant replies were received
    r30_sent,         \* data["messages"] as the last send_message posted it
    r30_last          \* how the last input ended: "reply" | "no choices" | "raised" | "exit" | "none"

reqVars  == <<max_retries, retry_delay, stream, attempt, pc, log, result>>
hdrVars  == <<headers, api_key, api_key_prefix, api_key_header, final_headers, hpc>>
convVars == <<model, history, turn_count, max_turns, hist_id, payloads, old_lists,
              appended, last_op>>
c33Vars  == <<c33_pc, c33_model, c33_model_type, c33_history, c33_turn_count,
              c33_appended, c33_last_op>>
mcVars   == <<mc_pc, mc_models, mc_history, mc_turn_count, mc_spin, mc_workers, mc_event>>
guiVars  == <<gui_pc, gui_client, gui_input, gui_enabled, gui_thread, gui_spin,
              gui_combo, gui_event>>
sdVars   == <<sd_pc, sd_decoder, sd_stream, sd_pos, sd_out>>
g12Vars  == <<g12_pc, g12_context, g12_sent, g12_call, g12_gen, g12_calls, g12_turns,
              g12_clean>>
rsVars   == <<rs_pc, rs_handler, rs_chunks, rs_pos, rs_out>>
g10Vars  == <<g10_pc, g10_stream, g10_outcome, g10_bound, g10_result>>
w36Vars  == <<w36_pc, w36_checks, w36_stream, w36_sends, w36_workers, w36_transcript>>
mbVars   == <<mb_pc, mb_models, mb_history, mb_turn_count, mb_spin, mb_workers>>
h11Vars  == <<h11_pc, h11_keep_context, h11_stream, h11_history, h11_appended, h11_dialog, h11_prior, h11_sent, h11_gen, h11_out, h11_turns>>
r30Vars  == <<r30_pc, r30_max_turns, r30_history, r30_turn_count, r30_replies, r30_sent, r30_last>>
vars     == <<reqVars, hdrVars, convVars, c33Vars, mcVars, guiVars, sdVars, g12Vars, rsVars, g10Vars, w36Vars, mbVars, h11Vars, r30Vars>>

\* What an action of one component leaves alone: the other components.
notReqVars  == <<hdrVars, convVars, c33Vars, mcVars, guiVars, sdVars, g12Vars, rsVars, g10Vars, w36Vars, mbVars, h11Vars, r30Vars>>
notHdrVars  == <<reqVars, convVars, c33Vars, mcVars, guiVars, sdVars, g12Vars, rsVars, g10Vars, w36Vars, mbVars, h11Vars, r30Vars>>
notConvVars == <<reqVars, hdrVars, c33Vars, mcVars, guiVars, sdVars, g12Vars, rsVars, g10Vars, w36Vars, mbVars, h11Vars, r30Vars>>
notC33Vars  == <<reqVars, hdrVars, convVars, mcVars, guiVars, sdVars, g12Vars, rsVars, g10Vars, w36Vars, mbVars, h11Vars, r30Vars>>
notMcVars   == <<reqVars, hdrVars, convVars, c33Vars, guiVars, sdVars, g12Vars, rsVars, g10Vars, w36Vars, mbVars, h11Vars, r30Vars>>
notGuiVars  == <<reqVars, hdrVars, c33Vars, mcVars, sdVars, g12Vars, rsVars, g10Vars, w36Vars, mbVars, h11Vars, r30Vars>>
notSdVars   == <<reqVars, hdrVars, convVars, c33Vars, mcVars, guiVars, g12Vars, rsVars, g10Vars, w36Vars, mbVars, h11Vars, r30Vars>>
notG12Vars == <<reqVars, hdrVars, convVars, c33Vars, mcVars, guiVars, sdVars, rsVars, g10Vars, w36Vars, mbVars, h11Vars, r30Vars>>
notRsVars == <<reqVars, hdrVars, convVars, c33Vars, mcVars, guiVars, sdVars, g12Vars, g10Vars, w36Vars, mbVars, h11Vars, r30Vars>>
notG10Vars == <<reqVars, hdrVars, convVars, c33Vars, mcVars, guiVars, sdVars, g12Vars, rsVars, w36Vars, mbVars, h11Vars, r30Vars>>
notW36Vars == <<reqVars, hdrVars, convVars, c33Vars, mcVars, guiVars, sdVars, g12Vars, rsVars, g10Vars, mbVars, h11Vars, r30Vars>>
notMbVars == <<reqVars, hdrVars, convVars, c33Vars, mcVars, guiVars, sdVars, g12Vars, rsVars, g10Vars, w36Vars, h11Vars, r30Vars>>
notH11Vars == <<reqVars, hdrVars, convVars, c33Vars, mcVars, guiVars, sdVars, g12Vars, rsVars, g10Vars, w36Vars, mbVars, r30Vars>>
notR30Vars == <<reqVars, hdrVars, convVars, c33Vars, mcVars, guiVars, sdVars, g12Vars, rsVars, g10Vars, w36Vars, mbVars, h11Vars>>

----------------------------------------------------------------------------
(* Bounds of the model *)

MaxRetries == 3
MaxRetryDelay == 2
MaxHistory == 3
MaxTurnsInput == 2
MaxPayloads == 1
MaxWorkers == 2
MaxLines == 3
MaxCalls == 2
MaxChunks == 2
MaxSends == 2
MaxFragments == 1
MaxAppends == 12
MaxTurns11 == 2
MaxTurns30 == 3

----------------------------------------------------------------------------
(* HTTP outcomes of one requests.request call *)

\* Status codes an attempt may see: both ends of [200,300), its neighbours,
\* the five retryable codes, and other 4xx/5xx codes.
Statuses == {199, 200, 204, 299, 300, 400, 404, 429, 500, 501, 502, 503, 504}

\* Response bodies: two JSON documents, two texts that are not JSON.
JsonBodies == {"{}", "{\"choices\":[]}"}
Bodies == JsonBodies \cup {"not json", ""}
ErrorBody == "error"

\* response.json(): the parsed document, or JSONDecodeError (modelled by
\* JsonDecodes being false).
JsonDecodes(text) == text \in JsonBodies
JsonValue(text) ==
    CASE text = "{}" -> "dict()"
      [] text = "{\"choices\":[]}" -> "dict(choices=list())"
      [] OTHER -> "JSONDecodeError"

\* An attempt ends in a response or in a requests.exceptions.RequestException
\* (connection refused, timeout, DNS failure).
Responses ==
    [exc : {FALSE}, status : {s \in Statuses : 200 <= s /\ s < 300}, text : Bodies]
    \cup [exc : {FALSE}, status : {s \in Statuses : ~(200 <= s /\ s < 300)}, text : {ErrorBody}]
RequestException == [exc |-> TRUE, status |-> 0, text |-> ""]
Outcomes == Responses \cup {RequestException}

RequestEvent(o) == [ev |-> "request", exc |-> o.exc, status |-> o.status, text |-> o.text, secs |-> 0]
SleepEvent(n)   == [ev |-> "sleep", exc |-> FALSE, status |-> 0, text |-> "", secs |-> n]

\* What the caller receives.
NoResult == [kind |-> "none", status |-> 0, text |-> "", value |-> ""]
ReturnResponse(o) == [kind |-> "response", status |-> o.status, text |-> o.text, value |-> ""]
ReturnJson(o)     == [kind |-> "json", status |-> o.status, text |-> o.text, value |-> JsonValue(o.text)]
ReturnText(o)     == [kind |-> "text", status |-> o.status, text |-> o.text, value |-> ""]
ReturnNone        == [kind |-> "None", status |-> 0, text |-> "", value |-> ""]
RaiseFatal(o)     == [kind |-> "fatal", status |-> o.status, text |-> o.text, value |-> ""]
RaiseExhausted    == [kind |-> "exhausted", status |-> 0, text |-> "", value |-> ""]
RaiseWrapped(o)   == [kind |-> "wrapped", status |-> o.status, text |-> o.text, value |-> ""]

RECURSIVE Pow2(_)
Pow2(n) == IF n = 0 THEN 1 ELSE 2 * Pow2(n - 1)

----------------------------------------------------------------------------
(* AIApiClient._make_request *)

IsSuccessStatus_Only200(status) == status = 200
IsSuccessStatus(status) == 200 <= status /\ status < 300

IsRetryableStatus_All5xx(status) == status = 429 \/ status >= 500
IsRetryableStatus(status) == status \in {429, 500, 502, 503, 504}

BackoffDelay_Linear(a) == retry_delay * (a + 1)
BackoffDelay(a) == retry_delay * Pow2(a)

\* The branch for a status in [200,300): how the call ends.
SuccessResult_NoFallback(o) ==
    IF stream THEN [pc |-> "returned", result |-> ReturnResponse(o)]
    ELSE IF JsonDecodes(o.text) THEN [pc |-> "returned", result |-> ReturnJson(o)]
    ELSE [pc |-> "raised", result |-> RaiseFatal(o)]
SuccessResult(o) ==
    IF stream THEN [pc |-> "returned", result |-> ReturnResponse(o)]
    ELSE IF JsonDecodes(o.text) THEN [pc |-> "returned", result |-> ReturnJson(o)]
    ELSE [pc |-> "returned", result |-> ReturnText(o)]

\* The statement after the loop: how the call ends when the loop runs out.
AfterLoop_ReturnsNone == [pc |-> "returned", result |-> ReturnNone]
AfterLoop == [pc |-> "raised", result |-> RaiseExhausted]

\* The idle values of the other components' variables.
HdrIdle ==
    /\ headers = [none |-> TRUE, map |-> <<>>]
    /\ api_key = ""
    /\ api_key_prefix = ""
    /\ api_key_header = "Authorization"
    /\ final_headers = <<>>
    /\ hpc = "idle"
ConvIdle ==
    /\ model = "deepseek-chat"
    /\ history = <<>>
    /\ turn_count = 0
    /\ max_turns = 0
    /\ hist_id = 1
    /\ payloads = <<>>
    /\ old_lists = <<>>
    /\ appended = <<>>
    /\ last_op = "__init__"
ReqIdle ==
    /\ max_retries = 0
    /\ retry_delay = 0
    /\ stream = FALSE
    /\ attempt = 0
    /\ pc = "idle"
    /\ log = <<>>
    /\ result = NoResult

C33Idle ==
    /\ c33_pc = "idle"
    /\ c33_model = "deepseek-chat"
    /\ c33_model_type = "deepseek"
    /\ c33_history = <<>>
    /\ c33_turn_count = 0
    /\ c33_appended = <<>>
    /\ c33_last_op = "__init__"
McIdle ==
    /\ mc_pc = "idle"
    /\ mc_models = <<"deepseek-chat">>
    /\ mc_history = <<>>
    /\ mc_turn_count = 0
    /\ mc_spin = 0
    /\ mc_workers = <<>>
    /\ mc_event = [handler |-> "__init__", outcome |-> ""]
GuiIdle ==
    /\ gui_pc = "idle"
    /\ gui_client = FALSE
    /\ gui_input = ""
    /\ gui_enabled = TRUE
    /\ gui_thread = "none"
    /\ gui_spin = 0
    /\ gui_combo = "deepseek-chat"
    /\ gui_event = [handler |-> "__init__", outcome |-> ""]
SdIdle ==
    /\ sd_pc = "idle"
    /\ sd_decoder = "1.2"
    /\ sd_stream = <<>>
    /\ sd_pos = 0
    /\ sd_out = <<>>

NoCall == [messages |-> <<>>, inherit |-> TRUE, stream |-> FALSE, outcome |-> "none"]
NoGenerator == [inherit |-> FALSE, chunks |-> <<>>]
G12Idle ==
    /\ g12_pc = "idle"
    /\ g12_context = <<>>
    /\ g12_sent = <<>>
    /\ g12_call = NoCall
    /\ g12_gen = NoGenerator
    /\ g12_calls = 0
    /\ g12_turns = <<>>
    /\ g12_clean = TRUE

RsIdle ==
    /\ rs_pc = "idle"
    /\ rs_handler = "3.5"
    /\ rs_chunks = <<>>
    /\ rs_pos = 0
    /\ rs_out = <<>>

G10Result(kind, value) == [kind |-> kind, value |-> value]
G10Idle ==
    /\ g10_pc = "idle"
    /\ g10_stream = FALSE
    /\ g10_outcome = RequestException
    /\ g10_bound = FALSE
    /\ g10_result = G10Result("none", "")

W36Idle ==
    /\ w36_pc = "idle"
    /\ w36_checks = {}
    /\ w36_stream = FALSE
    /\ w36_sends = 0
    /\ w36_workers = <<>>
    /\ w36_transcript = <<>>

MbIdle ==
    /\ mb_pc = "idle"
    /\ mb_models = <<"deepseek-chat">>
    /\ mb_history = <<>>
    /\ mb_turn_count = 0
    /\ mb_spin = 0
    /\ mb_workers = <<>>

NoGenerator11 == [lines |-> <<>>, pos |-> 0, full_response |-> <<>>]
H11Idle ==
    /\ h11_pc = "idle"
    /\ h11_keep_context = TRUE
    /\ h11_stream = FALSE
    /\ h11_history = <<>>
    /\ h11_appended = <<>>
    /\ h11_dialog = <<>>
    /\ h11_prior = <<>>
    /\ h11_sent = <<>>
    /\ h11_gen = NoGenerator11
    /\ h11_out = <<>>
    /\ h11_turns = 0

R30Idle ==
    /\ r30_pc = "idle"
    /\ r30_max_turns = 0
    /\ r30_history = <<>>
    /\ r30_turn_count = 0
    /\ r30_replies = 0
    /\ r30_sent = <<>>
    /\ r30_last = "none"

ReqInit ==
    /\ max_retries \in 0..MaxRetries
    /\ retry_delay \in 0..MaxRetryDelay
    /\ stream \in BOOLEAN
    /\ attempt = 0
    /\ pc = "loop"
    /\ log = <<>>
    /\ result = NoResult

Init == ReqInit /\ HdrIdle /\ ConvIdle /\ C33Idle /\ McIdle /\ GuiIdle /\ SdIdle /\ G12Idle /\ RsIdle /\ G10Idle /\ W36Idle /\ MbIdle /\ H11Idle /\ R30Idle

InLoop_Inclusive == pc = "loop" /\ attempt <= max_retries
InLoop == pc = "loop" /\ attempt < max_retries

\* status in [200,300): return the response (stream) or its parsed body.
AttemptSuccess ==
    \E o \in Responses :
        /\ InLoop
        /\ IsSuccessStatus(o.status)
        /\ log' = Append(log, RequestEvent(o))
        /\ result' = SuccessResult(o).result
        /\ pc' = SuccessResult(o).pc
        /\ UNCHANGED <<max_retries, retry_delay, stream, attempt, notReqVars>>

\* status in [429,500,502,503,504]: sleep, continue.
AttemptRetryableStatus ==
    \E o \in Responses :
        /\ InLoop
        /\ ~IsSuccessStatus(o.status)
        /\ IsRetryableStatus(o.status)
        /\ log' = log \o <<RequestEvent(o), SleepEvent(BackoffDelay(attempt))>>
        /\ attempt' = attempt + 1
        /\ UNCHANGED <<max_retries, retry_delay, stream, pc, result, notReqVars>>

\* any other status: raise Exception, which the except clause for
\* RequestException does not catch.
AttemptFatalStatus ==
    \E o \in Responses :
        /\ InLoop
        /\ ~IsSuccessStatus(o.status)
        /\ ~IsRetryableStatus(o.status)
        /\ log' = Append(log, RequestEvent(o))
        /\ result' = RaiseFatal(o)
        /\ pc' = "raised"
        /\ UNCHANGED <<max_retries, retry_delay, stream, attempt, notReqVars>>

AttemptRequestException_NoSleep ==
    /\ InLoop
    /\ log' = Append(log, RequestEvent(RequestException))
    /\ attempt' = attempt + 1
    /\ UNCHANGED <<max_retries, retry_delay, stream, pc, result, notReqVars>>
\* requests.request raises RequestException: sleep, next iteration.
AttemptRequestException ==
    /\ InLoop
    /\ log' = log \o <<RequestEvent(RequestException), SleepEvent(BackoffDelay(attempt))>>
    /\ attempt' = attempt + 1
    /\ UNCHANGED <<max_retries, retry_delay, stream, pc, result, notReqVars>>

\* the loop is over: raise Exception("达到最大重试次数后请求仍然失败").
LoopExhausted ==
    /\ pc = "loop"
    /\ attempt >= max_retries
    /\ pc' = AfterLoop.pc
    /\ result' = AfterLoop.result
    /\ UNCHANGED <<max_retries, retry_delay, stream, attempt, log, notReqVars>>

Next ==
    \/ AttemptSuccess
    \/ AttemptRetryableStatus
    \/ AttemptFatalStatus
    \/ AttemptRequestException
    \/ LoopExhausted

Spec == Init /\ [][Next]_vars

\* The call runs on: each attempt ends (by response or by the timeout of
\* requests.request) and time.sleep returns.
FairSpec == Init /\ [][Next]_vars /\ WF_vars(Next)

----------------------------------------------------------------------------
(* BaseAIApiClient._make_request (3.3.py, css2.py) *)

\* `except Exception as e`: re-raised (wrapped) on the last attempt only, and
\* otherwise dropped, the loop going on to the next attempt without a sleep.
BaseOnException(o) ==
    /\ log' = Append(log, RequestEvent(o))
    /\ IF attempt = max_retries - 1
       THEN /\ pc' = "raised"
            /\ result' = RaiseWrapped(o)
            /\ attempt' = attempt
       ELSE /\ attempt' = attempt + 1
            /\ UNCHANGED <<pc, result>>

\* status in [200,300): `return response.json() if not stream else response`;
\* a body that is not JSON makes response.json() raise inside the try block.
BaseAttemptSuccess ==
    \E o \in Responses :
        /\ InLoop
        /\ 200 <= o.status /\ o.status < 300
        /\ IF stream \/ JsonDecodes(o.text)
           THEN /\ log' = Append(log, RequestEvent(o))
                /\ result' = IF stream THEN ReturnResponse(o) ELSE ReturnJson(o)
                /\ pc' = "returned"
                /\ attempt' = attempt
           ELSE BaseOnException(o)
        /\ UNCHANGED <<max_retries, retry_delay, stream, notReqVars>>

\* status in [429,500,502,503,504]: sleep, continue.
BaseAttemptRetryableStatus ==
    \E o \in Responses :
        /\ InLoop
        /\ o.status \in {429, 500, 502, 503, 504}
        /\ log' = log \o <<RequestEvent(o), SleepEvent(retry_delay * Pow2(attempt))>>
        /\ attempt' = attempt + 1
        /\ UNCHANGED <<max_retries, retry_delay, stream, pc, result, notReqVars>>

\* any other status: raise Exception inside the try block.
BaseAttemptFatalStatus ==
    \E o \in Responses :
        /\ InLoop
        /\ ~(200 <= o.status /\ o.status < 300)
        /\ o.status \notin {429, 500, 502, 503, 504}
        /\ BaseOnException(o)
        /\ UNCHANGED <<max_retries, retry_delay, stream, notReqVars>>

\* requests.request raises.
BaseAttemptRequestException ==
    /\ InLoop
    /\ BaseOnException(RequestException)
    /\ UNCHANGED <<max_retries, retry_delay, stream, notReqVars>>

\* the loop is over and the function body ends: the call returns None.
BaseLoopFallsOff ==
    /\ pc = "loop"
    /\ attempt >= max_retries
    /\ pc' = "returned"
    /\ result' = ReturnNone
    /\ UNCHANGED <<max_retries, retry_delay, stream, attempt, log, notReqVars>>

BaseNext ==
    \/ BaseAttemptSuccess
    \/ BaseAttemptRetryableStatus
    \/ BaseAttemptFatalStatus
    \/ BaseAttemptRequestException
    \/ BaseLoopFallsOff

BaseSpec == Init /\ [][BaseNext]_vars

----------------------------------------------------------------------------
(* AIApiClient._prepare_headers (ai_api.py) *)

\* A Python dict is a function from its keys to its values.
DictSet(d, k, v) == [x \in (DOMAIN d) \cup {k} |-> IF x = k THEN v ELSE d[x]]

HeaderNames == {"Content-Type", "Authorization", "X-API-Key"}
CallerValues == {"text/plain", "caller"}
\* The headers argument: None, or a dict over some of the header names.
CallerHeaders ==
    {[none |-> TRUE, map |-> <<>>]}
    \cup {[none |-> FALSE, map |-> m] : m \in UNION {[K -> CallerValues] : K \in SUBSET HeaderNames}}
ApiKeys == {"sk-1", ""}
Prefixes == {"Bearer", "Token", ""}
\* The names the key travels under: the default, and the one of the usage example.
AuthHeaderNames == {"Authorization", "X-API-Key"}

\* prefix = f"{self.api_key_prefix} " if self.api_key_prefix else ""; f"{prefix}{self.api_key}"
AuthValue_AlwaysSeparator == api_key_prefix \o " " \o api_key
AuthValue ==
    LET prefix == IF api_key_prefix # "" THEN api_key_prefix \o " " ELSE ""
    IN  prefix \o api_key

_prepare_headers(h) ==
    LET given == IF h.none \/ DOMAIN h.map = {} THEN <<>> ELSE h.map
        typed == IF "Content-Type" \notin DOMAIN given
                 THEN DictSet(given, "Content-Type", "application/json")
                 ELSE given
    IN  DictSet(typed, api_key_header, AuthValue)

HdrInit ==
    /\ headers \in CallerHeaders
    /\ api_key \in ApiKeys
    /\ api_key_prefix \in Prefixes
    /\ api_key_header \in AuthHeaderNames
    /\ final_headers = <<>>
    /\ hpc = "call"

PrepareHeaders ==
    /\ hpc = "call"
    /\ final_headers' = _prepare_headers(headers)
    /\ hpc' = "done"
    /\ UNCHANGED <<headers, api_key, api_key_prefix, api_key_header, notHdrVars>>

HdrNext == PrepareHeaders

HdrSpecInit == HdrInit /\ ReqIdle /\ ConvIdle /\ C33Idle /\ McIdle /\ GuiIdle /\ SdIdle /\ G12Idle /\ RsIdle /\ G10Idle /\ W36Idle /\ MbIdle /\ H11Idle /\ R30Idle

HdrSpec == HdrSpecInit /\ [][HdrNext]_vars

----------------------------------------------------------------------------
(* Conversation (DeepSeekVIP.py) *)

\* The model_combo entries; "" stands for an argument that is None or empty.
ModelArgs == {"", "deepseek-chat", "deepseek-coder"}
Texts == {"hello", "hi there"}
Message(role, content) == [role |-> role, content |-> content]

can_continue_Inclusive == max_turns = 0 \/ turn_count <= max_turns
can_continue == max_turns = 0 \/ turn_count < max_turns

\* The list object `self.history = []` creates. The list it replaces lives on
\* (in old_lists) when a payload still refers to it; otherwise it is garbage
\* and its identity is free again.
HistoryReferenced == \E i \in DOMAIN payloads : payloads[i].ref = hist_id
FreshHistory ==
    /\ history' = <<>>
    /\ hist_id' = IF HistoryReferenced THEN hist_id + 1 ELSE hist_id
    /\ old_lists' = IF HistoryReferenced
                    THEN [i \in (DOMAIN old_lists) \cup {hist_id} |->
                             IF i = hist_id THEN history ELSE old_lists[i]]
                    ELSE old_lists

\* The contents, now, of the list a payload refers to.
PayloadMessages(p) == IF p.ref = hist_id THEN history ELSE old_lists[p.ref]

start_new_KeepsTurns(m) ==
    /\ model' = IF m # "" THEN m ELSE model
    /\ FreshHistory
    /\ appended' = <<>>
    /\ last_op' = "start_new"
    /\ UNCHANGED <<turn_count, max_turns, payloads, notConvVars>>
start_new(m) ==
    /\ model' = IF m # "" THEN m ELSE model
    /\ FreshHistory
    /\ turn_count' = 0
    /\ appended' = <<>>
    /\ last_op' = "start_new"
    /\ UNCHANGED <<max_turns, payloads, notConvVars>>

add_user_message_CountsTurn(message) ==
    /\ Len(history) < MaxHistory
    /\ history' = Append(history, Message("user", message))
    /\ turn_count' = turn_count + 1
    /\ appended' = Append(appended, Message("user", message))
    /\ last_op' = "add_user_message"
    /\ UNCHANGED <<model, max_turns, hist_id, payloads, old_lists, notConvVars>>
add_user_message(message) ==
    /\ Len(history) < MaxHistory
    /\ history' = Append(history, Message("user", message))
    /\ appended' = Append(appended, Message("user", message))
    /\ last_op' = "add_user_message"
    /\ UNCHANGED <<model, turn_count, max_turns, hist_id, payloads, old_lists, notConvVars>>

add_assistant_message_Prepends(message) ==
    /\ Len(history) < MaxHistory
    /\ history' = <<Message("assistant", message)>> \o history
    /\ turn_count' = turn_count + 1
    /\ appended' = Append(appended, Message("assistant", message))
    /\ last_op' = "add_assistant_message"
    /\ UNCHANGED <<model, max_turns, hist_id, payloads, old_lists, notConvVars>>
add_assistant_message(message) ==
    /\ Len(history) < MaxHistory
    /\ history' = Append(history, Message("assistant", message))
    /\ turn_count' = turn_count + 1
    /\ appended' = Append(appended, Message("assistant", message))
    /\ last_op' = "add_assistant_message"
    /\ UNCHANGED <<model, max_turns, hist_id, payloads, old_lists, notConvVars>>

\* `return self.history`: the list object itself, not a copy.
get_messages ==
    /\ Len(payloads) < MaxPayloads
    /\ payloads' = Append(payloads, [ref |-> hist_id, snap |-> history])
    /\ last_op' = "get_messages"
    /\ UNCHANGED <<model, history, turn_count, max_turns, hist_id, old_lists, appended,
                   notConvVars>>

\* The argument is turns_spin.value(), a spin box of range 0..100.
set_max_turns(n) ==
    /\ max_turns' = n
    /\ last_op' = "set_max_turns"
    /\ UNCHANGED <<model, history, turn_count, hist_id, payloads, old_lists, appended,
                   notConvVars>>

ConvInit ==
    /\ model = "deepseek-chat"
    /\ history = <<>>
    /\ turn_count = 0
    /\ max_turns = 0
    /\ hist_id = 1
    /\ payloads = <<>>
    /\ old_lists = <<>>
    /\ appended = <<>>
    /\ last_op = "__init__"

ConvNext ==
    \/ \E m \in ModelArgs : start_new(m)
    \/ \E t \in Texts : add_user_message(t)
    \/ \E t \in Texts : add_assistant_message(t)
    \/ \E n \in 0..MaxTurnsInput : set_max_turns(n)

ConvSpecInit == ConvInit /\ ReqIdle /\ HdrIdle /\ C33Idle /\ McIdle /\ GuiIdle /\ SdIdle /\ G12Idle /\ RsIdle /\ G10Idle /\ W36Idle /\ MbIdle /\ H11Idle /\ R30Idle

ConvSpec == ConvSpecInit /\ [][ConvNext]_vars

\* The Conversation with a caller that keeps the lists get_messages returns.
PayloadNext ==
    \/ start_new("")
    \/ \E t \in Texts : add_user_message(t)
    \/ \E t \in Texts : add_assistant_message(t)
    \/ get_messages

PayloadSpec == ConvSpecInit /\ [][PayloadNext]_vars

----------------------------------------------------------------------------
(* Conversation (3.3.py) *)

\* The first word of the model_combobox entry; "" stands for None.
ModelArgs33 == {"", "deepseek-chat", "doubao"}
Roles == {"user", "assistant", "system"}

Conversation33_start_new(m, mt) ==
    /\ c33_model' = IF m # "" THEN m ELSE "deepseek-chat"
    /\ c33_model_type' = IF mt # "" THEN mt ELSE "deepseek"
    /\ c33_history' = <<>>
    /\ c33_turn_count' = 0
    /\ c33_appended' = <<>>
    /\ c33_last_op' = "start_new"
    /\ UNCHANGED <<c33_pc, notC33Vars>>

Conversation33_add_message(role, content) ==
    /\ Len(c33_history) < MaxHistory
    /\ c33_history' = Append(c33_history, Message(role, content))
    /\ c33_turn_count' = IF role = "assistant" THEN c33_turn_count + 1 ELSE c33_turn_count
    /\ c33_appended' = Append(c33_appended, Message(role, content))
    /\ c33_last_op' = "add_message"
    /\ UNCHANGED <<c33_pc, c33_model, c33_model_type, notC33Vars>>

\* {"model": self.model, "messages": self.history}
Conversation33_get_payload == [model |-> c33_model, messages |-> c33_history]

C33Init ==
    /\ c33_pc = "run"
    /\ c33_model = "deepseek-chat"
    /\ c33_model_type = "deepseek"
    /\ c33_history = <<>>
    /\ c33_turn_count = 0
    /\ c33_appended = <<>>
    /\ c33_last_op = "__init__"

C33Next ==
    \/ \E m \in ModelArgs33 : Conversation33_start_new(m, m)
    \/ \E r \in Roles, t \in Texts : Conversation33_add_message(r, t)

C33SpecInit == C33Init /\ ReqIdle /\ HdrIdle /\ ConvIdle /\ McIdle /\ GuiIdle /\ SdIdle /\ G12Idle /\ RsIdle /\ G10Idle /\ W36Idle /\ MbIdle /\ H11Idle /\ R30Idle

C33Spec == C33SpecInit /\ [][C33Next]_vars

----------------------------------------------------------------------------
(* Conversation and AIChatApp (css2.py) *)

\* What new_conversation can select: the checked boxes, DeepSeek first.
ModelLists == {<<"deepseek-chat">>, <<"doubao">>, <<"deepseek-chat", "doubao">>}
Range(seq) == {seq[i] : i \in DOMAIN seq}
Replies == {"hi there"}
McEvent(h, o) == [handler |-> h, outcome |-> o]

\* Conversation.start_new(models)
MultiConversation_start_new(models) ==
    /\ mc_models' = models
    /\ mc_history' = [m \in Range(models) |-> <<>>]
    /\ mc_turn_count' = 0

\* Conversation.add_user_message: for model in self.models: self.history[model].append(...)
AddUserToAll_FirstOnly(message) ==
    [m \in DOMAIN mc_history |->
        IF m = mc_models[1] THEN Append(mc_history[m], Message("user", message))
        ELSE mc_history[m]]
AddUserToAll(message) ==
    [m \in DOMAIN mc_history |->
        IF m \in Range(mc_models) THEN Append(mc_history[m], Message("user", message))
        ELSE mc_history[m]]

\* self.conversation.history[model_type].append({"role": "assistant", ...})
AddReply(model_type, reply) ==
    [m \in DOMAIN mc_history |->
        IF m = model_type THEN Append(mc_history[m], Message("assistant", reply))
        ELSE mc_history[m]]

\* AIChatApp.new_conversation with at least one box checked.
new_conversation(selected) ==
    /\ mc_pc = "run"
    /\ MultiConversation_start_new(selected)
    /\ mc_spin' = 0
    /\ mc_event' = McEvent("new_conversation", "started")
    /\ UNCHANGED <<mc_pc, mc_workers, notMcVars>>

\* AIChatApp.new_conversation with no box checked: a warning, nothing else.
new_conversation_none ==
    /\ mc_pc = "run"
    /\ mc_event' = McEvent("new_conversation", "no model")
    /\ UNCHANGED <<mc_pc, mc_models, mc_history, mc_turn_count, mc_spin, mc_workers, notMcVars>>

\* The user turns the max_turns spin box (range 0..50).
set_spin(n) ==
    /\ mc_pc = "run"
    /\ mc_spin' = n
    /\ mc_event' = McEvent("spin", "set")
    /\ UNCHANGED <<mc_pc, mc_models, mc_history, mc_turn_count, mc_workers, notMcVars>>

\* self.threads.clear(): the running threads stay running, unlisted.
Unlisted(ws) == [i \in DOMAIN ws |-> [ws[i] EXCEPT !.listed = FALSE]]
\* One ApiRequestThread per model of the list, started in list order.
NewWorkers(models) == [i \in DOMAIN models |-> [model |-> models[i], listed |-> TRUE]]

\* AIChatApp.send_message with a non-blank message.
mc_send_message(msg) ==
    /\ mc_pc = "run"
    /\ IF \A i \in DOMAIN mc_models : mc_models[i] \in DOMAIN mc_history
       THEN /\ Len(mc_workers) + Len(mc_models) <= MaxWorkers
            /\ \A m \in DOMAIN mc_history : Len(mc_history[m]) < MaxHistory
            /\ mc_history' = AddUserToAll(msg)
            /\ mc_workers' = Unlisted(mc_workers) \o NewWorkers(mc_models)
            /\ mc_event' = McEvent("send_message", "sent")
            /\ UNCHANGED mc_pc
       ELSE \* add_user_message raises KeyError out of the slot, after
            \* self.threads.clear(): PyQt aborts the process, or (with an
            \* excepthook installed, or before PyQt 5.5) goes on.
            /\ mc_workers' = Unlisted(mc_workers)
            /\ mc_event' = McEvent("send_message", "KeyError")
            /\ mc_pc' \in {"run", "crashed"}
            /\ UNCHANGED mc_history
    /\ UNCHANGED <<mc_models, mc_turn_count, mc_spin, notMcVars>>

\* AIChatApp.send_message with a blank message: return.
mc_send_blank ==
    /\ mc_pc = "run"
    /\ mc_event' = McEvent("send_message", "blank")
    /\ UNCHANGED <<mc_pc, mc_models, mc_history, mc_turn_count, mc_spin, mc_workers, notMcVars>>

RemoveAt(seq, i) == [j \in 1..(Len(seq) - 1) |-> IF j < i THEN seq[j] ELSE seq[j + 1]]
\* for t in self.threads: t.terminate().  The unlisted threads run on; of the
\* listed ones, those whose signal is already queued for the window (keep)
\* are still heard.
RECURSIVE Terminated(_, _, _)
Terminated(ws, keep, j) ==
    IF j > Len(ws) THEN <<>>
    ELSE (IF ~ws[j].listed \/ j \in keep THEN <<ws[j]>> ELSE <<>>)
         \o Terminated(ws, keep, j + 1)

\* A deepseek worker emits finished with a well-formed response:
\* handle_multi_response appends the reply and counts the turn when the spin
\* box is above 0; at the limit it terminates the listed threads.
handle_multi_response(i, reply) ==
    /\ mc_pc = "run"
    /\ i \in DOMAIN mc_workers
    /\ mc_workers[i].model = "deepseek-chat"
    /\ IF mc_workers[i].model \in DOMAIN mc_history
       THEN /\ Len(mc_history[mc_workers[i].model]) < MaxHistory
            /\ mc_history' = AddReply(mc_workers[i].model, reply)
            /\ mc_turn_count' = IF mc_spin > 0 THEN mc_turn_count + 1 ELSE mc_turn_count
            /\ \E keep \in SUBSET (1..(Len(mc_workers) - 1)) :
                   mc_workers' = IF mc_spin > 0 /\ mc_turn_count + 1 >= mc_spin
                                 THEN Terminated(RemoveAt(mc_workers, i), keep, 1)
                                 ELSE RemoveAt(mc_workers, i)
            /\ mc_event' = McEvent("handle_multi_response",
                                   IF mc_spin > 0 /\ mc_turn_count + 1 >= mc_spin
                                   THEN "limit reached" ELSE "appended")
       ELSE \* history[model_type] raises KeyError, caught by the handler
            /\ mc_workers' = RemoveAt(mc_workers, i)
            /\ mc_event' = McEvent("handle_multi_response", "parse error")
            /\ UNCHANGED <<mc_history, mc_turn_count>>
    /\ UNCHANGED <<mc_pc, mc_models, mc_spin, notMcVars>>

\* A deepseek worker emits finished with a response without choices: the
\* handler's except clause reports it.
handle_multi_response_malformed(i) ==
    /\ mc_pc = "run"
    /\ i \in DOMAIN mc_workers
    /\ mc_workers[i].model = "deepseek-chat"
    /\ mc_workers' = RemoveAt(mc_workers, i)
    /\ mc_event' = McEvent("handle_multi_response", "parse error")
    /\ UNCHANGED <<mc_pc, mc_models, mc_history, mc_turn_count, mc_spin, notMcVars>>

\* A worker emits error: the request failed, or (doubao) DoubaoClient has no
\* chat_completion method and run() raises AttributeError.
handle_multi_error(i) ==
    /\ mc_pc = "run"
    /\ i \in DOMAIN mc_workers
    /\ mc_workers' = RemoveAt(mc_workers, i)
    /\ mc_event' = McEvent("handle_multi_error", mc_workers[i].model)
    /\ UNCHANGED <<mc_pc, mc_models, mc_history, mc_turn_count, mc_spin, notMcVars>>

McInit ==
    /\ mc_pc = "run"
    /\ mc_models = <<"deepseek-chat">>
    /\ mc_history = <<>>
    /\ mc_turn_count = 0
    /\ mc_spin = 0
    /\ mc_workers = <<>>
    /\ mc_event = McEvent("__init__", "")

McNext ==
    \/ \E l \in ModelLists : new_conversation(l)
    \/ new_conversation_none
    \/ \E n \in 0..MaxTurnsInput : set_spin(n)
    \/ \E t \in Texts : mc_send_message(t)
    \/ mc_send_blank
    \/ \E i \in 1..MaxWorkers, r \in Replies : handle_multi_response(i, r)
    \/ \E i \in 1..MaxWorkers : handle_multi_response_malformed(i)
    \/ \E i \in 1..MaxWorkers : handle_multi_error(i)

McSpecInit == McInit /\ ReqIdle /\ HdrIdle /\ ConvIdle /\ C33Idle /\ GuiIdle /\ SdIdle /\ G12Idle /\ RsIdle /\ G10Idle /\ W36Idle /\ MbIdle /\ H11Idle /\ R30Idle

McSpec == McSpecInit /\ [][McNext]_vars

----------------------------------------------------------------------------
(* AIChatApp (DeepSeekVIP.py): the chat window over its Conversation *)

\* What the user can have typed into message_input.
InputTexts == {"", " ", "hello", " hello "}
\* str.strip() on those texts.
Strip(t) == CASE t = " " -> "" [] t = " hello " -> "hello" [] OTHER -> t
ComboItems == {"deepseek-chat", "deepseek-coder"}
GuiEvent(h, o) == [handler |-> h, outcome |-> o]

type_message_WhileReadOnly(t) ==
    /\ gui_pc = "run"
    /\ gui_input' = t
    /\ gui_event' = GuiEvent("message_input", "edited")
    /\ UNCHANGED <<gui_pc, gui_client, gui_enabled, gui_thread, gui_spin, gui_combo,
                   convVars, notGuiVars>>
\* The user edits message_input, which is possible while it is not read-only.
type_message(t) ==
    /\ gui_pc = "run"
    /\ gui_enabled
    /\ gui_input' = t
    /\ gui_event' = GuiEvent("message_input", "edited")
    /\ UNCHANGED <<gui_pc, gui_client, gui_enabled, gui_thread, gui_spin, gui_combo,
                   convVars, notGuiVars>>

\* The user turns turns_spin or picks a model: nothing reads them until
\* start_new_chat.
set_turns_spin(n) ==
    /\ gui_pc = "run"
    /\ gui_spin' = n
    /\ gui_event' = GuiEvent("turns_spin", "set")
    /\ UNCHANGED <<gui_pc, gui_client, gui_input, gui_enabled, gui_thread, gui_combo,
                   convVars, notGuiVars>>
set_model_combo(m) ==
    /\ gui_pc = "run"
    /\ gui_combo' = m
    /\ gui_event' = GuiEvent("model_combo", "set")
    /\ UNCHANGED <<gui_pc, gui_client, gui_input, gui_enabled, gui_thread, gui_spin,
                   convVars, notGuiVars>>

\* test_api_connection: self.client is assigned before the test request, so it
\* stays set whatever the request does.
test_api_connection ==
    /\ gui_pc = "run"
    /\ gui_client' = TRUE
    /\ gui_event' = GuiEvent("test_api_connection", "done")
    /\ UNCHANGED <<gui_pc, gui_input, gui_enabled, gui_thread, gui_spin, gui_combo,
                   convVars, notGuiVars>>

\* start_new_chat: conversation.start_new(combo text), then
\* conversation.set_max_turns(spin value).  The button is never disabled.
start_new_chat ==
    /\ gui_pc = "run"
    /\ model' = gui_combo
    /\ history' = <<>>
    /\ turn_count' = 0
    /\ appended' = <<>>
    /\ max_turns' = gui_spin
    /\ last_op' = "set_max_turns"
    /\ gui_event' = GuiEvent("start_new_chat", "started")
    /\ UNCHANGED <<hist_id, payloads, old_lists>>
    /\ UNCHANGED <<gui_pc, gui_client, gui_input, gui_enabled, gui_thread, gui_spin,
                   gui_combo, notGuiVars>>

\* The checks send_message makes before it sends, in their order.
SendOutcome_NoLimitCheck(text) ==
    IF ~gui_client THEN "no client"
    ELSE IF Strip(text) = "" THEN "blank"
    ELSE "sent"
SendOutcome(text) ==
    IF ~gui_client THEN "no client"
    ELSE IF Strip(text) = "" THEN "blank"
    ELSE IF ~can_continue THEN "limit"
    ELSE "sent"

\* send_message, from a click on send_button (while it is enabled) or from
\* Return in message_input (a read-only QLineEdit still emits returnPressed).
send_message(via) ==
    /\ gui_pc = "run"
    /\ via = "clicked" => gui_enabled
    /\ gui_event' = GuiEvent("send_message", SendOutcome(gui_input))
    /\ IF SendOutcome(gui_input) = "sent"
       THEN /\ Len(history) < MaxHistory
            /\ history' = Append(history, Message("user", Strip(gui_input)))
            /\ appended' = Append(appended, Message("user", Strip(gui_input)))
            /\ last_op' = "get_messages"
            /\ gui_input' = ""
            /\ gui_enabled' = FALSE
            /\ gui_thread' = "running"
       ELSE UNCHANGED <<history, appended, last_op, gui_input, gui_enabled, gui_thread>>
    /\ UNCHANGED <<model, turn_count, max_turns, hist_id, payloads, old_lists>>
    /\ UNCHANGED <<gui_pc, gui_client, gui_spin, gui_combo, notGuiVars>>

\* The thread emits finished with a response that has choices[0].message.content.
handle_api_response(reply) ==
    /\ gui_pc = "run"
    /\ gui_thread = "running"
    /\ Len(history) < MaxHistory
    /\ gui_enabled' = TRUE
    /\ gui_thread' = "none"
    /\ history' = Append(history, Message("assistant", reply))
    /\ appended' = Append(appended, Message("assistant", reply))
    /\ turn_count' = turn_count + 1
    /\ last_op' = "add_assistant_message"
    /\ gui_event' = GuiEvent("handle_api_response",
                             IF max_turns = 0 \/ turn_count + 1 < max_turns
                             THEN "appended" ELSE "limit reached")
    /\ UNCHANGED <<model, max_turns, hist_id, payloads, old_lists>>
    /\ UNCHANGED <<gui_pc, gui_client, gui_input, gui_spin, gui_combo, notGuiVars>>

\* The thread emits finished with a response without choices, or with an empty
\* choices list: "[无回复]" and a warning.
handle_api_response_no_choices ==
    /\ gui_pc = "run"
    /\ gui_thread = "running"
    /\ gui_enabled' = TRUE
    /\ gui_thread' = "none"
    /\ gui_event' = GuiEvent("handle_api_response", "no reply")
    /\ UNCHANGED <<gui_pc, gui_client, gui_input, gui_spin, gui_combo, convVars, notGuiVars>>

\* The thread emits finished with a choice that has no message.content: the
\* KeyError leaves the slot after the widgets are re-enabled; PyQt aborts the
\* process, or (with an excepthook installed, or before PyQt 5.5) goes on.
handle_api_response_bad_choice ==
    /\ gui_pc = "run"
    /\ gui_thread = "running"
    /\ gui_enabled' = TRUE
    /\ gui_thread' = "none"
    /\ gui_event' = GuiEvent("handle_api_response", "KeyError")
    /\ gui_pc' \in {"run", "crashed"}
    /\ UNCHANGED <<gui_client, gui_input, gui_spin, gui_combo, convVars, notGuiVars>>

\* The thread emits error.
handle_api_error ==
    /\ gui_pc = "run"
    /\ gui_thread = "running"
    /\ gui_enabled' = TRUE
    /\ gui_thread' = "none"
    /\ gui_event' = GuiEvent("handle_api_error", "shown")
    /\ UNCHANGED <<gui_pc, gui_client, gui_input, gui_spin, gui_combo, convVars, notGuiVars>>

GuiInit ==
    /\ gui_pc = "run"
    /\ gui_client = FALSE
    /\ gui_input = ""
    /\ gui_enabled = TRUE
    /\ gui_thread = "none"
    /\ gui_spin = 0
    /\ gui_combo = "deepseek-chat"
    /\ gui_event = GuiEvent("__init__", "")

GuiNext ==
    \/ \E t \in InputTexts : type_message(t)
    \/ \E n \in 0..MaxTurnsInput : set_turns_spin(n)
    \/ \E m \in ComboItems : set_model_combo(m)
    \/ test_api_connection
    \/ start_new_chat
    \/ \E via \in {"clicked", "returnPressed"} : send_message(via)
    \/ \E r \in Replies : handle_api_response(r)
    \/ handle_api_response_no_choices
    \/ handle_api_response_bad_choice
    \/ handle_api_error

GuiSpecInit == GuiInit /\ ConvInit /\ ReqIdle /\ HdrIdle /\ C33Idle /\ McIdle /\ SdIdle /\ G12Idle /\ RsIdle /\ G10Idle /\ W36Idle /\ MbIdle /\ H11Idle /\ R30Idle

GuiSpec == GuiSpecInit /\ [][GuiNext]_vars

----------------------------------------------------------------------------
(* Streaming decoders: the loop over response.iter_lines() *)

Decoders == {"1.0", "1.1", "1.2", "3.5", "3.6"}

\* A line of the stream: whether it starts with "data: ", and what follows (the
\* whole line when it does not).  body names the text: "" (an empty line),
\* "[DONE]", "{not json}", "event: ping", or a JSON object, which is
\*   "content"       {"choices":[{"delta":{"content": <content>}}]}
\*   "no content"    {"choices":[{"delta":{"role":"assistant"}}]}
\*   "empty choices" {"choices":[]}
\*   "no choices"    {"id":"1"}
Line(prefix, body, content) == [prefix |-> prefix, body |-> body, content |-> content]
EmptyLine     == Line(FALSE, "", "")
DoneLine      == Line(TRUE, "[DONE]", "")
MalformedLine == Line(TRUE, "{not json}", "")
CommentLine   == Line(FALSE, "event: ping", "")
ChunkLine(c)  == Line(TRUE, "content", c)
BareChunk(c)  == Line(FALSE, "content", c)
Contents == {"Hi", ""}
Lines ==
    {EmptyLine, DoneLine, MalformedLine, CommentLine, BareChunk("Hi"),
     Line(TRUE, "no content", ""), Line(TRUE, "empty choices", ""),
     Line(TRUE, "no choices", "")}
    \cup {ChunkLine(c) : c \in Contents}

JsonObjects == {"content", "no content", "empty choices", "no choices"}
\* json.loads succeeds on the text
JsonLoadsOk(body) == body \in JsonObjects
\* line.startswith("data: ")
StartsWithData(ln) == ln.prefix
\* line[6:] of a line that starts with "data: ", and line.lstrip(b'data: ') of
\* any of these lines: none of the texts after the prefix, and no line without
\* the prefix, begins with one of the characters d, a, t, ':' and ' '.
AfterPrefix(ln) == ln.body

Fragment(kind, text, n) == [kind |-> kind, text |-> text, line |-> n]
Produced(frags, abort) == [out |-> frags, abort |-> abort]
Nothing == Produced(<<>>, FALSE)

\* chunk['choices'][0].get('delta', {}).get('content', ''), when 'choices' is
\* in chunk and not empty
DeltaContentOrEmpty(ln) == IF ln.body = "content" THEN ln.content ELSE ""

\* 1.0.py and 1.2.py: one iteration of the loop; they differ in where a parse
\* failure goes (printed among the content, or yielded to the caller).
DecodeLine_1_0(ln, n) ==
    IF ln = EmptyLine \/ ~StartsWithData(ln) \/ AfterPrefix(ln) = "[DONE]" THEN Nothing
    ELSE IF ~JsonLoadsOk(AfterPrefix(ln))
         THEN Produced(<<Fragment("notice", "parse error", n)>>, FALSE)
    ELSE IF DeltaContentOrEmpty(ln) # ""
         THEN Produced(<<Fragment("content", DeltaContentOrEmpty(ln), n)>>, FALSE)
    ELSE Nothing
DecodeLine_1_2(ln, n) == DecodeLine_1_0(ln, n)

\* 1.1.py: json.loads on every "data: " line, the sentinel included; any
\* exception leaves the loop through the outer except, which yields a notice.
Interrupted(n) == Produced(<<Fragment("notice", "interrupted", n)>>, TRUE)
DecodeLine_1_1(ln, n) ==
    IF ln = EmptyLine \/ ~StartsWithData(ln) THEN Nothing
    ELSE IF ~JsonLoadsOk(AfterPrefix(ln)) THEN Interrupted(n)
    ELSE IF ln.body = "no choices" THEN Nothing
    ELSE IF ln.body = "empty choices" THEN Interrupted(n)
    ELSE IF ln.body = "content" THEN Produced(<<Fragment("content", ln.content, n)>>, FALSE)
    ELSE Nothing

\* 3.5.py: json_data["choices"][0]["delta"]["content"] is emitted as it is;
\* every exception is passed over.
DecodeLine_3_5(ln, n) ==
    IF ln = EmptyLine THEN Nothing
    ELSE IF ln.body = "content" THEN Produced(<<Fragment("content", ln.content, n)>>, FALSE)
    ELSE Nothing

\* 3.6.py: the content is emitted when it is not empty; every exception is
\* passed over.
DecodeLine_3_6(ln, n) ==
    IF ln = EmptyLine THEN Nothing
    ELSE IF ln.body = "content" /\ ln.content # ""
         THEN Produced(<<Fragment("content", ln.content, n)>>, FALSE)
    ELSE Nothing

\* The loop takes the next line and applies the decoder's iteration to it.
TakeLine(produced) ==
    /\ sd_pos' = sd_pos + 1
    /\ sd_out' = sd_out \o produced.out
    /\ sd_pc' = IF produced.abort THEN "ended" ELSE "reading"
    /\ UNCHANGED <<sd_decoder, sd_stream, notSdVars>>

MoreLines(d) == sd_pc = "reading" /\ sd_decoder = d /\ sd_pos < Len(sd_stream)
NoMoreLines(d) == sd_pc = "reading" /\ sd_decoder = d /\ sd_pos = Len(sd_stream)

_handle_stream_response_1_0 ==
    /\ MoreLines("1.0")
    /\ TakeLine(DecodeLine_1_0(sd_stream[sd_pos + 1], sd_pos + 1))
_handle_stream_response_1_1 ==
    /\ MoreLines("1.1")
    /\ TakeLine(DecodeLine_1_1(sd_stream[sd_pos + 1], sd_pos + 1))
_handle_stream_response_1_2 ==
    /\ MoreLines("1.2")
    /\ TakeLine(DecodeLine_1_2(sd_stream[sd_pos + 1], sd_pos + 1))
handle_deepseek_stream ==
    /\ MoreLines("3.5")
    /\ TakeLine(DecodeLine_3_5(sd_stream[sd_pos + 1], sd_pos + 1))
generate_3_6 ==
    /\ MoreLines("3.6")
    /\ TakeLine(DecodeLine_3_6(sd_stream[sd_pos + 1], sd_pos + 1))

\* The stream is exhausted.  1.2.py yields "[stream_end]" after the loop; the
\* others produce nothing more.
StreamEnd_1_2 ==
    /\ NoMoreLines("1.2")
    /\ sd_out' = Append(sd_out, Fragment("notice", "[stream_end]", sd_pos + 1))
    /\ sd_pc' = "ended"
    /\ UNCHANGED <<sd_decoder, sd_stream, sd_pos, notSdVars>>
StreamEnd ==
    /\ \E d \in Decoders \ {"1.2"} : NoMoreLines(d)
    /\ sd_pc' = "ended"
    /\ UNCHANGED <<sd_decoder, sd_stream, sd_pos, sd_out, notSdVars>>

RECURSIVE SeqsUpTo(_, _)
SeqsUpTo(S, n) ==
    IF n = 0 THEN {<<>>}
    ELSE SeqsUpTo(S, n - 1) \cup {Append(q, x) : q \in SeqsUpTo(S, n - 1), x \in S}

SdInit ==
    /\ sd_pc = "reading"
    /\ sd_decoder \in Decoders
    /\ sd_stream \in SeqsUpTo(Lines, MaxLines)
    /\ sd_pos = 0
    /\ sd_out = <<>>

SdNext ==
    \/ _handle_stream_response_1_0
    \/ _handle_stream_response_1_1
    \/ _handle_stream_response_1_2
    \/ handle_deepseek_stream
    \/ generate_3_6
    \/ StreamEnd_1_2
    \/ StreamEnd

SdSpecInit == SdInit /\ ReqIdle /\ HdrIdle /\ ConvIdle /\ C33Idle /\ McIdle /\ GuiIdle /\ G12Idle /\ RsIdle /\ G10Idle /\ W36Idle /\ MbIdle /\ H11Idle /\ R30Idle

SdSpec == SdSpecInit /\ [][SdNext]_vars

----------------------------------------------------------------------------
(* DeepSeekClient.generate and its context (1.2.py) *)

\* A text is the sequence of its pieces, so that concatenation is \o.
Users12 == {Message("user", <<"hello">>), Message("user", <<"more">>)}
RequestMessages12 ==
    {<<u>> : u \in Users12}
    \cup {<<Message("system", <<"be brief">>), Message("user", <<"hello">>)>>}
ReplyTexts == {<<>>, <<"Hi">>, <<"Hi", "!">>}
\* response.json() of a successful call: with the assistant message, or
\* without choices.
ResponseData(choices) == [choices |-> choices]
NonStreamResponses ==
    {ResponseData(<<Message("assistant", r)>>) : r \in ReplyTexts} \cup {ResponseData(<<>>)}
\* The non-empty delta contents a stream delivers, in order.
StreamReplies == {<<>>, << <<"Hi">> >>, << <<"Hi">>, <<"!">> >>}
Call(messages, inherit, streaming, outcome) ==
    [messages |-> messages, inherit |-> inherit, stream |-> streaming, outcome |-> outcome]

\* full_content += content, over the chunks
RECURSIVE FullContent(_)
FullContent(chunks) ==
    IF chunks = <<>> THEN <<>> ELSE Head(chunks) \o FullContent(Tail(chunks))

_build_request_messages_AlwaysInherit(messages, inherit_context) ==
    g12_context \o messages
_build_request_messages(messages, inherit_context) ==
    IF ~inherit_context THEN messages ELSE g12_context \o messages

\* The value of self.context after _update_context.
_update_context(request_messages, response_data, inherit_context) ==
    IF ~inherit_context THEN g12_context
    ELSE g12_context
         \o SelectSeq(request_messages, LAMBDA msg : msg.role = "user")
         \o (IF Len(response_data.choices) > 0 THEN <<response_data.choices[1]>> ELSE <<>>)

\* The value of self.context after the loop of _handle_stream_response.
StreamContext(full_content, inherit_context) ==
    IF inherit_context /\ full_content # <<>>
    THEN Append(g12_context, Message("assistant", full_content))
    ELSE g12_context

IsOneUserMessage(messages) == Len(messages) = 1 /\ messages[1].role = "user"

\* generate(stream=False) with a 2xx response that parses.
generate(messages, inherit_context, response_data) ==
    /\ g12_pc = "ready"
    /\ g12_calls < MaxCalls
    /\ g12_calls' = g12_calls + 1
    /\ g12_sent' = _build_request_messages(messages, inherit_context)
    /\ g12_context' = _update_context(_build_request_messages(messages, inherit_context),
                                      response_data, inherit_context)
    /\ g12_call' = Call(messages, inherit_context, FALSE, "returned")
    /\ g12_clean' = (/\ g12_clean
                     /\ inherit_context
                     /\ IsOneUserMessage(messages)
                     /\ Len(response_data.choices) > 0)
    /\ g12_turns' = g12_turns \o messages \o response_data.choices
    /\ UNCHANGED <<g12_pc, g12_gen, notG12Vars>>

\* generate with a request that fails (HTTPError or RequestException): the
\* handlers return {"error": ...}.
generate_fails(messages, inherit_context, streaming) ==
    /\ g12_pc = "ready"
    /\ g12_calls < MaxCalls
    /\ g12_calls' = g12_calls + 1
    /\ g12_sent' = _build_request_messages(messages, inherit_context)
    /\ g12_call' = Call(messages, inherit_context, streaming, "error")
    /\ g12_clean' = FALSE
    /\ UNCHANGED <<g12_pc, g12_context, g12_gen, g12_turns, notG12Vars>>

\* generate(stream=True) with a 2xx response: the generator is returned; its
\* body has not run yet.
generate_stream(messages, inherit_context, chunks) ==
    /\ g12_pc = "ready"
    /\ g12_calls < MaxCalls
    /\ g12_calls' = g12_calls + 1
    /\ g12_sent' = _build_request_messages(messages, inherit_context)
    /\ g12_call' = Call(messages, inherit_context, TRUE, "generator")
    /\ g12_gen' = [inherit |-> inherit_context, chunks |-> chunks]
    /\ g12_pc' = "generator"
    /\ g12_clean' = FALSE
    /\ UNCHANGED <<g12_context, g12_turns, notG12Vars>>

\* The caller consumes the generator to its end.
consume_stream ==
    /\ g12_pc = "generator"
    /\ g12_context' = StreamContext(FullContent(g12_gen.chunks), g12_gen.inherit)
    /\ g12_call' = [g12_call EXCEPT !.outcome = "consumed"]
    /\ g12_gen' = NoGenerator
    /\ g12_pc' = "ready"
    /\ UNCHANGED <<g12_sent, g12_calls, g12_turns, g12_clean, notG12Vars>>

clear_context ==
    /\ g12_pc = "ready"
    /\ g12_context # <<>>
    /\ g12_context' = <<>>
    /\ g12_turns' = <<>>
    /\ g12_clean' = TRUE
    /\ g12_call' = NoCall
    /\ UNCHANGED <<g12_pc, g12_sent, g12_gen, g12_calls, notG12Vars>>

G12Init ==
    /\ g12_pc = "ready"
    /\ g12_context = <<>>
    /\ g12_sent = <<>>
    /\ g12_call = NoCall
    /\ g12_gen = NoGenerator
    /\ g12_calls = 0
    /\ g12_turns = <<>>
    /\ g12_clean = TRUE

G12Next ==
    \/ \E m \in RequestMessages12, i \in BOOLEAN, r \in NonStreamResponses : generate(m, i, r)
    \/ \E m \in RequestMessages12, i \in BOOLEAN, st \in BOOLEAN : generate_fails(m, i, st)
    \/ \E m \in RequestMessages12, i \in BOOLEAN, ch \in StreamReplies : generate_stream(m, i, ch)
    \/ consume_stream
    \/ clear_context

G12SpecInit == G12Init /\ ReqIdle /\ HdrIdle /\ ConvIdle /\ C33Idle /\ McIdle /\ GuiIdle /\ SdIdle /\ RsIdle /\ G10Idle /\ W36Idle /\ MbIdle /\ H11Idle /\ R30Idle

G12Spec == G12SpecInit /\ [][G12Next]_vars

----------------------------------------------------------------------------
(* Doubao stream handlers: handle_doubao_stream (3.5.py), DoubaoClient.generate
   (3.6.py, stream=True) *)

\* An attribute of delta: absent, None, or a string (a text is the sequence of
\* its pieces).
Absent == [kind |-> "absent", text |-> <<>>]
None == [kind |-> "none", text |-> <<>>]
Str(t) == [kind |-> "str", text |-> t]
ReasoningValues == {Absent, None, Str(<<>>), Str(<<"think">>)}
ContentValues == {Absent, None, Str(<<>>), Str(<<"Hi">>)}
\* A chunk with choices[0].delta, or one whose choices list is empty (the
\* usage chunk that stream_options include_usage asks for).
DeltaChunk(r, c) == [choices |-> TRUE, reasoning_content |-> r, content |-> c]
UsageChunk == [choices |-> FALSE, reasoning_content |-> Absent, content |-> Absent]
Chunks == {DeltaChunk(r, c) : r \in ReasoningValues, c \in ContentValues} \cup {UsageChunk}

\* hasattr(delta, name) and delta.name
Truthy(f) == f.kind = "str" /\ f.text # <<>>
\* delta.name or ""
OrEmpty(f) == IF Truthy(f) THEN f.text ELSE <<>>

\* 3.5.py: content built from the two attributes
ChunkText_3_5_ContentFirst(chunk) ==
    (IF Truthy(chunk.content) THEN chunk.content.text ELSE <<>>)
    \o (IF Truthy(chunk.reasoning_content) THEN chunk.reasoning_content.text ELSE <<>>)
ChunkText_3_5(chunk) ==
    (IF Truthy(chunk.reasoning_content) THEN chunk.reasoning_content.text ELSE <<>>)
    \o (IF Truthy(chunk.content) THEN chunk.content.text ELSE <<>>)
\* 3.6.py: the same from hasattr and `or ""`
ChunkText_3_6(chunk) ==
    (IF chunk.reasoning_content.kind # "absent" THEN OrEmpty(chunk.reasoning_content) ELSE <<>>)
    \o (IF chunk.content.kind # "absent" THEN OrEmpty(chunk.content) ELSE <<>>)

Emitted(text, n) == [text |-> text, chunk |-> n]

\* 3.5.py: one iteration; a chunk without choices is passed over.
handle_doubao_stream ==
    /\ rs_pc = "reading"
    /\ rs_handler = "3.5"
    /\ rs_pos < Len(rs_chunks)
    /\ rs_pos' = rs_pos + 1
    /\ rs_out' = IF rs_chunks[rs_pos + 1].choices /\ ChunkText_3_5(rs_chunks[rs_pos + 1]) # <<>>
                 THEN Append(rs_out, Emitted(ChunkText_3_5(rs_chunks[rs_pos + 1]), rs_pos + 1))
                 ELSE rs_out
    /\ UNCHANGED <<rs_pc, rs_handler, rs_chunks, notRsVars>>

\* 3.6.py: one iteration; chunk.choices[0] of a chunk without choices raises
\* IndexError, which ends the call with error_occurred.
DoubaoClient_generate ==
    /\ rs_pc = "reading"
    /\ rs_handler = "3.6"
    /\ rs_pos < Len(rs_chunks)
    /\ rs_pos' = rs_pos + 1
    /\ IF ~rs_chunks[rs_pos + 1].choices
       THEN rs_pc' = "failed" /\ UNCHANGED rs_out
       ELSE /\ rs_out' = IF ChunkText_3_6(rs_chunks[rs_pos + 1]) # <<>>
                         THEN Append(rs_out,
                                     Emitted(ChunkText_3_6(rs_chunks[rs_pos + 1]), rs_pos + 1))
                         ELSE rs_out
            /\ UNCHANGED rs_pc
    /\ UNCHANGED <<rs_handler, rs_chunks, notRsVars>>

\* The stream is exhausted.
DoubaoStreamEnd ==
    /\ rs_pc = "reading"
    /\ rs_pos = Len(rs_chunks)
    /\ rs_pc' = "ended"
    /\ UNCHANGED <<rs_handler, rs_chunks, rs_pos, rs_out, notRsVars>>

RsInit ==
    /\ rs_pc = "reading"
    /\ rs_handler \in {"3.5", "3.6"}
    /\ rs_chunks \in SeqsUpTo(Chunks, MaxChunks)
    /\ rs_pos = 0
    /\ rs_out = <<>>

RsNext ==
    \/ handle_doubao_stream
    \/ DoubaoClient_generate
    \/ DoubaoStreamEnd

RsSpecInit == RsInit /\ ReqIdle /\ HdrIdle /\ ConvIdle /\ C33Idle /\ McIdle /\ GuiIdle /\ SdIdle /\ G12Idle /\ G10Idle /\ W36Idle /\ MbIdle /\ H11Idle /\ R30Idle

RsSpec == RsSpecInit /\ [][RsNext]_vars

----------------------------------------------------------------------------
(* DeepSeekClient.generate (1.0.py) *)

\* response.raise_for_status() raises HTTPError
RaisesForStatus(status) == 400 <= status /\ status < 600

\* The except RequestException handler: it prints, reads
\* response.status_code, and returns {"error": str(e)}.
ExceptHandler_ReturnsError(bound) == [pc |-> "returned", result |-> G10Result("dict", "error")]
ExceptHandler(bound) ==
    IF bound THEN [pc |-> "returned", result |-> G10Result("dict", "error")]
    ELSE [pc |-> "raised", result |-> G10Result("exception", "UnboundLocalError")]

\* response = requests.post(...)
g10_post ==
    /\ g10_pc = "called"
    /\ IF g10_outcome.exc
       THEN /\ g10_pc' = ExceptHandler(g10_bound).pc
            /\ g10_result' = ExceptHandler(g10_bound).result
            /\ UNCHANGED g10_bound
       ELSE /\ g10_pc' = "posted"
            /\ g10_bound' = TRUE
            /\ UNCHANGED g10_result
    /\ UNCHANGED <<g10_stream, g10_outcome, notG10Vars>>

\* response.raise_for_status() raises: the handler runs with response bound.
g10_http_error ==
    /\ g10_pc = "posted"
    /\ RaisesForStatus(g10_outcome.status)
    /\ g10_pc' = ExceptHandler(g10_bound).pc
    /\ g10_result' = ExceptHandler(g10_bound).result
    /\ UNCHANGED <<g10_stream, g10_outcome, g10_bound, notG10Vars>>

\* stream=True: _handle_stream_response prints the stream and returns its
\* status dict.
g10_stream_response ==
    /\ g10_pc = "posted"
    /\ ~RaisesForStatus(g10_outcome.status)
    /\ g10_stream
    /\ g10_pc' = "returned"
    /\ g10_result' = G10Result("dict", "stream_complete")
    /\ UNCHANGED <<g10_stream, g10_outcome, g10_bound, notG10Vars>>

\* stream=False: return response.json().
g10_json_response ==
    /\ g10_pc = "posted"
    /\ ~RaisesForStatus(g10_outcome.status)
    /\ ~g10_stream
    /\ JsonDecodes(g10_outcome.text)
    /\ g10_pc' = "returned"
    /\ g10_result' = G10Result("json", JsonValue(g10_outcome.text))
    /\ UNCHANGED <<g10_stream, g10_outcome, g10_bound, notG10Vars>>

\* stream=False and the body is not JSON: response.json() raises
\* JSONDecodeError, which is a RequestException from requests 2.27 on (the
\* handler runs) and a plain ValueError before (it leaves the call).
g10_json_fails ==
    /\ g10_pc = "posted"
    /\ ~RaisesForStatus(g10_outcome.status)
    /\ ~g10_stream
    /\ ~JsonDecodes(g10_outcome.text)
    /\ \/ /\ g10_pc' = ExceptHandler(g10_bound).pc
          /\ g10_result' = ExceptHandler(g10_bound).result
       \/ /\ g10_pc' = "raised"
          /\ g10_result' = G10Result("exception", "JSONDecodeError")
    /\ UNCHANGED <<g10_stream, g10_outcome, g10_bound, notG10Vars>>

G10Init ==
    /\ g10_pc = "called"
    /\ g10_stream \in BOOLEAN
    /\ g10_outcome \in Outcomes
    /\ g10_bound = FALSE
    /\ g10_result = G10Result("none", "")

G10Next ==
    \/ g10_post
    \/ g10_http_error
    \/ g10_stream_response
    \/ g10_json_response
    \/ g10_json_fails

G10SpecInit == G10Init /\ ReqIdle /\ HdrIdle /\ ConvIdle /\ C33Idle /\ McIdle /\ GuiIdle /\ SdIdle /\ G12Idle /\ RsIdle /\ W36Idle /\ MbIdle /\ H11Idle /\ R30Idle

G10Spec == G10SpecInit /\ [][G10Next]_vars

----------------------------------------------------------------------------
(* AIChatApp (3.6.py): the fan-out window *)

\* The keys of self.model_checks, in dict order.
Models36 == <<"deepseek", "doubao">>
\* [k for k, v in self.model_checks.items() if v.isChecked()]
SelectedModels36 == SelectSeq(Models36, LAMBDA k : k \in w36_checks)
\* A block of chat_history: who wrote it, the request it answers (0 for the
\* user), and its text as the pieces inserted.
Block(who, req, text) == [who |-> who, req |-> req, text |-> text]
BlockMessage(b) ==
    Message(IF b.who = "user" THEN "user" ELSE "assistant", b.text)
\* What the window shows of the exchange with model m.
ExchangeWith(m) ==
    [i \in DOMAIN SelectSeq(w36_transcript, LAMBDA b : b.who \in {"user", m}) |->
        BlockMessage(SelectSeq(w36_transcript, LAMBDA b : b.who \in {"user", m})[i])]

\* data["messages"] of send_message
Data36(m, message) == <<Message("user", <<message>>)>>

\* One StreamRequestThread per selected model, each with the client made for
\* it in this call.
Workers36(models, message) ==
    [i \in DOMAIN models |->
        [model |-> models[i],
         req |-> w36_sends + 1,
         client |-> [made_by |-> w36_sends + 1, model |-> models[i]],
         stream |-> w36_stream,
         messages |-> Data36(models[i], message),
         prior |-> ExchangeWith(models[i]),
         emitted |-> 0]]

w36_toggle_model(m) ==
    /\ w36_pc = "run"
    /\ w36_checks' = IF m \in w36_checks THEN w36_checks \ {m} ELSE w36_checks \cup {m}
    /\ UNCHANGED <<w36_pc, w36_stream, w36_sends, w36_workers, w36_transcript, notW36Vars>>

w36_toggle_stream ==
    /\ w36_pc = "run"
    /\ w36_stream' = ~w36_stream
    /\ UNCHANGED <<w36_pc, w36_checks, w36_sends, w36_workers, w36_transcript, notW36Vars>>

\* new_chat: the transcript is cleared and self.active_threads is rebound to
\* [], which drops the last references to the threads that still run: Qt
\* aborts when a running QThread is destroyed, unless the thread's own frame
\* still holds it.
new_chat ==
    /\ w36_pc = "run"
    /\ w36_transcript' = <<>>
    /\ w36_pc' \in (IF w36_workers = <<>> THEN {"run"} ELSE {"run", "crashed"})
    /\ UNCHANGED <<w36_checks, w36_stream, w36_sends, w36_workers, notW36Vars>>

\* send_message with a non-blank message and at least one model checked.
w36_send_message(message) ==
    /\ w36_pc = "run"
    /\ w36_checks # {}
    /\ w36_sends < MaxSends
    /\ w36_sends' = w36_sends + 1
    /\ w36_transcript' = Append(w36_transcript, Block("user", 0, <<message>>))
    /\ w36_workers' = w36_workers \o Workers36(SelectedModels36, message)
    /\ UNCHANGED <<w36_pc, w36_checks, w36_stream, notW36Vars>>

\* send_message with a blank message, or with no model checked (a warning).
w36_send_rejected ==
    /\ w36_pc = "run"
    /\ UNCHANGED vars

\* A non-streaming deepseek worker emits finished: show_full_response.
show_full_response(i, reply) ==
    /\ w36_pc = "run"
    /\ i \in DOMAIN w36_workers
    /\ ~w36_workers[i].stream
    /\ w36_workers[i].model = "deepseek"
    /\ w36_transcript' = Append(w36_transcript,
                                Block(w36_workers[i].model, w36_workers[i].req, <<reply>>))
    /\ w36_workers' = RemoveAt(w36_workers, i)
    /\ UNCHANGED <<w36_pc, w36_checks, w36_stream, w36_sends, notW36Vars>>

\* A streaming worker emits a fragment: update_stream_response starts a block
\* for the model unless the last block is the model's, and inserts the
\* fragment at the end.
update_stream_response(i, content) ==
    /\ w36_pc = "run"
    /\ i \in DOMAIN w36_workers
    /\ w36_workers[i].stream
    /\ w36_workers[i].emitted < MaxFragments
    /\ w36_transcript' =
          IF /\ w36_transcript # <<>>
             /\ w36_transcript[Len(w36_transcript)].who = w36_workers[i].model
          THEN [w36_transcript EXCEPT ![Len(w36_transcript)].text = Append(@, content)]
          ELSE Append(w36_transcript,
                      Block(w36_workers[i].model, w36_workers[i].req, <<content>>))
    /\ w36_workers' = [w36_workers EXCEPT ![i].emitted = @ + 1]
    /\ UNCHANGED <<w36_pc, w36_checks, w36_stream, w36_sends, notW36Vars>>

\* A streaming worker's generate returns: the thread ends without a signal.
w36_stream_ends(i) ==
    /\ w36_pc = "run"
    /\ i \in DOMAIN w36_workers
    /\ w36_workers[i].stream
    /\ w36_workers' = RemoveAt(w36_workers, i)
    /\ UNCHANGED <<w36_pc, w36_checks, w36_stream, w36_sends, w36_transcript, notW36Vars>>

\* A worker emits error_signal: the request failed, or (non-streaming) generate
\* returned None, which finished.emit rejects; a non-streaming doubao worker
\* always ends so, as its response is not a stream of chunks.
w36_handle_error(i) ==
    /\ w36_pc = "run"
    /\ i \in DOMAIN w36_workers
    /\ w36_transcript' = Append(w36_transcript, Block("error", w36_workers[i].req, <<"error">>))
    /\ w36_workers' = RemoveAt(w36_workers, i)
    /\ UNCHANGED <<w36_pc, w36_checks, w36_stream, w36_sends, notW36Vars>>

W36Init ==
    /\ w36_pc = "run"
    /\ w36_checks = {}
    /\ w36_stream = FALSE
    /\ w36_sends = 0
    /\ w36_workers = <<>>
    /\ w36_transcript = <<>>

W36Next ==
    \/ \E m \in Range(Models36) : w36_toggle_model(m)
    \/ w36_toggle_stream
    \/ new_chat
    \/ \E t \in {"hello"} : w36_send_message(t)
    \/ w36_send_rejected
    \/ \E i \in 1..(2 * MaxSends), r \in Replies : show_full_response(i, r)
    \/ \E i \in 1..(2 * MaxSends), r \in Replies : update_stream_response(i, r)
    \/ \E i \in 1..(2 * MaxSends) : w36_stream_ends(i)
    \/ \E i \in 1..(2 * MaxSends) : w36_handle_error(i)

W36SpecInit == W36Init /\ ReqIdle /\ HdrIdle /\ ConvIdle /\ C33Idle /\ McIdle /\ GuiIdle /\ SdIdle /\ G12Idle /\ RsIdle /\ G10Idle /\ MbIdle /\ H11Idle /\ R30Idle

W36Spec == W36SpecInit /\ [][W36Next]_vars

----------------------------------------------------------------------------
(* AIChatApp and ApiRequestThread (css2.py): what a worker serializes *)

\* json.dumps of a list of messages: one object text per message.
json_dumps(messages) ==
    [i \in DOMAIN messages |->
        <<"{\"role\": ", messages[i].role, ", \"content\": ", messages[i].content, "}">>]

\* data["messages"] of a worker: get_model_payload put the list object
\* history[model] itself into the payload, so the worker sees the list as it
\* is now; a list that start_new replaced no longer changes.
DataMessages(w) == IF w.live THEN mb_history[w.model] ELSE w.frozen

\* Conversation.start_new rebinds self.history: the lists the running workers
\* hold are no longer the conversation's.
Detached(ws) ==
    [i \in DOMAIN ws |->
        IF ws[i].live
        THEN [ws[i] EXCEPT !.live = FALSE, !.frozen = mb_history[ws[i].model]]
        ELSE ws[i]]

\* One ApiRequestThread per model of the list, with the payload of
\* get_model_payload(model); hist is the history after add_user_message.
NewBodyWorkers(models, hist) ==
    [i \in DOMAIN models |->
        [model |-> models[i], listed |-> TRUE, live |-> TRUE, frozen |-> <<>>,
         dispatched |-> hist[models[i]], posted |-> FALSE, body |-> <<>>]]

mb_new_conversation(selected) ==
    /\ mb_pc = "run"
    /\ mb_models' = selected
    /\ mb_history' = [m \in Range(selected) |-> <<>>]
    /\ mb_turn_count' = 0
    /\ mb_spin' = 0
    /\ mb_workers' = Detached(mb_workers)
    /\ UNCHANGED <<mb_pc, notMbVars>>

\* new_conversation with no box checked (a warning), or send_message with a
\* blank message.
mb_nothing_done ==
    /\ mb_pc = "run"
    /\ UNCHANGED vars

mb_set_spin(n) ==
    /\ mb_pc = "run"
    /\ mb_spin' = n
    /\ UNCHANGED <<mb_pc, mb_models, mb_history, mb_turn_count, mb_workers, notMbVars>>

mb_send_message(msg) ==
    /\ mb_pc = "run"
    /\ IF \A i \in DOMAIN mb_models : mb_models[i] \in DOMAIN mb_history
       THEN /\ Len(mb_workers) + Len(mb_models) <= MaxWorkers
            /\ \A m \in DOMAIN mb_history : Len(mb_history[m]) < MaxHistory
            /\ mb_history' =
                  [m \in DOMAIN mb_history |->
                      IF m \in Range(mb_models)
                      THEN Append(mb_history[m], Message("user", msg))
                      ELSE mb_history[m]]
            /\ mb_workers' = Unlisted(mb_workers) \o NewBodyWorkers(mb_models, mb_history')
            /\ UNCHANGED mb_pc
       ELSE \* add_user_message raises KeyError out of the slot
            /\ mb_workers' = Unlisted(mb_workers)
            /\ mb_pc' \in {"run", "crashed"}
            /\ UNCHANGED mb_history
    /\ UNCHANGED <<mb_models, mb_turn_count, mb_spin, notMbVars>>

\* ApiRequestThread.run of a deepseek worker reaches DeepSeekClient.post:
\* json.dumps(data) serializes the payload as it is at this moment.
post(i) ==
    /\ mb_pc = "run"
    /\ i \in DOMAIN mb_workers
    /\ mb_workers[i].model = "deepseek-chat"
    /\ ~mb_workers[i].posted
    /\ mb_workers' = [mb_workers EXCEPT
                         ![i].posted = TRUE,
                         ![i].body = json_dumps(DataMessages(mb_workers[i]))]
    /\ UNCHANGED <<mb_pc, mb_models, mb_history, mb_turn_count, mb_spin, notMbVars>>

\* A deepseek worker emits finished with a well-formed response.
mb_handle_multi_response(i, reply) ==
    /\ mb_pc = "run"
    /\ i \in DOMAIN mb_workers
    /\ mb_workers[i].posted
    /\ IF mb_workers[i].model \in DOMAIN mb_history
       THEN /\ Len(mb_history[mb_workers[i].model]) < MaxHistory
            /\ mb_history' = [mb_history EXCEPT
                                 ![mb_workers[i].model] = Append(@, Message("assistant", reply))]
            /\ mb_turn_count' = IF mb_spin > 0 THEN mb_turn_count + 1 ELSE mb_turn_count
            /\ \E keep \in SUBSET (1..(Len(mb_workers) - 1)) :
                   mb_workers' = IF mb_spin > 0 /\ mb_turn_count + 1 >= mb_spin
                                 THEN Terminated(RemoveAt(mb_workers, i), keep, 1)
                                 ELSE RemoveAt(mb_workers, i)
       ELSE \* history[model_type] raises KeyError, caught by the handler
            /\ mb_workers' = RemoveAt(mb_workers, i)
            /\ UNCHANGED <<mb_history, mb_turn_count>>
    /\ UNCHANGED <<mb_pc, mb_models, mb_spin, notMbVars>>

\* A worker emits error (a failed or malformed deepseek request; a doubao
\* worker always), or finished with a response the handler cannot read.
mb_handle_failure(i) ==
    /\ mb_pc = "run"
    /\ i \in DOMAIN mb_workers
    /\ mb_workers[i].model = "deepseek-chat" => mb_workers[i].posted
    /\ mb_workers' = RemoveAt(mb_workers, i)
    /\ UNCHANGED <<mb_pc, mb_models, mb_history, mb_turn_count, mb_spin, notMbVars>>

MbInit ==
    /\ mb_pc = "run"
    /\ mb_models = <<"deepseek-chat">>
    /\ mb_history = <<>>
    /\ mb_turn_count = 0
    /\ mb_spin = 0
    /\ mb_workers = <<>>

MbNext ==
    \/ \E l \in ModelLists : mb_new_conversation(l)
    \/ mb_nothing_done
    \/ \E n \in 0..MaxTurnsInput : mb_set_spin(n)
    \/ \E t \in {"hello"} : mb_send_message(t)
    \/ \E i \in 1..MaxWorkers : post(i)
    \/ \E i \in 1..MaxWorkers, r \in Replies : mb_handle_multi_response(i, r)
    \/ \E i \in 1..MaxWorkers : mb_handle_failure(i)

MbSpecInit == MbInit /\ ReqIdle /\ HdrIdle /\ ConvIdle /\ C33Idle /\ McIdle /\ GuiIdle /\ SdIdle /\ G12Idle /\ RsIdle /\ G10Idle /\ W36Idle /\ H11Idle /\ R30Idle

MbSpec == MbSpecInit /\ [][MbNext]_vars

----------------------------------------------------------------------------
(* DeepSeekChatClient (1.1.py): the history and interactive_chat *)

\* if len(self.history) > 10: self.history = self.history[-10:]
HistoryCap == 10
\* seq[-n:]
LastN(seq, n) ==
    IF Len(seq) <= n THEN seq ELSE SubSeq(seq, Len(seq) - n + 1, Len(seq))

_update_history_KeepsOldest(hist, message) ==
    IF Len(hist) + 1 > HistoryCap
    THEN SubSeq(Append(hist, message), 1, HistoryCap)
    ELSE Append(hist, message)
_update_history(hist, message) ==
    IF Len(hist) + 1 > HistoryCap
    THEN LastN(Append(hist, message), HistoryCap)
    ELSE Append(hist, message)

\* "".join(full_response): texts are sequences of pieces.
RECURSIVE Join(_)
Join(pieces) == IF pieces = <<>> THEN <<>> ELSE <<Head(pieces)>> \o Join(Tail(pieces))

UserInputs11 == {<<"hello">>}
AssistantMessages11 == {Message("assistant", <<"hi there">>), Message("assistant", <<"ok">>)}
StreamLines11 == {ChunkLine("Hi"), ChunkLine("!"), DoneLine}

\* messages = self.history.copy() if self.keep_context else []; messages.append(...)
ChatMessages(user_input) ==
    (IF h11_keep_context THEN h11_history ELSE <<>>) \o <<Message("user", user_input)>>

\* A direct call of _update_history.
update_history_call(message) ==
    /\ h11_pc = "update"
    /\ Len(h11_appended) < MaxAppends
    /\ h11_history' = _update_history(h11_history, message)
    /\ h11_appended' = Append(h11_appended, message)
    /\ UNCHANGED <<h11_pc, h11_keep_context, h11_stream, h11_dialog, h11_prior, h11_sent,
                   h11_gen, h11_out, h11_turns, notH11Vars>>

\* What every turn of interactive_chat does before the request.
Ask(user_input) ==
    /\ h11_pc = "prompt"
    /\ h11_turns < MaxTurns11
    /\ h11_turns' = h11_turns + 1
    /\ h11_sent' = ChatMessages(user_input)
    /\ h11_prior' = h11_dialog
    /\ h11_out' = <<>>

\* A turn without streaming that the model answers: _handle_normal_response
\* returns the content and, with keep_context, stores the message.
chat_normal(user_input, message) ==
    /\ ~h11_stream
    /\ Ask(user_input)
    /\ h11_dialog' = h11_dialog \o <<Message("user", user_input), message>>
    /\ IF h11_keep_context
       THEN /\ h11_history' = _update_history(h11_history, message)
            /\ h11_appended' = Append(h11_appended, message)
       ELSE UNCHANGED <<h11_history, h11_appended>>
    /\ UNCHANGED <<h11_pc, h11_keep_context, h11_stream, h11_gen, notH11Vars>>

\* A turn whose request fails, or (without streaming) whose response has no
\* 'choices' or is not JSON: chat returns a text, which is printed (character
\* by character when streaming).
chat_no_reply(user_input) ==
    /\ Ask(user_input)
    /\ h11_dialog' = Append(h11_dialog, Message("user", user_input))
    /\ UNCHANGED <<h11_pc, h11_keep_context, h11_stream, h11_history, h11_appended,
                   h11_gen, notH11Vars>>

\* A turn without streaming whose response has an empty 'choices' list:
\* result['choices'][0] raises IndexError, which nothing catches.
chat_empty_choices(user_input) ==
    /\ ~h11_stream
    /\ Ask(user_input)
    /\ h11_pc' = "crashed"
    /\ h11_dialog' = Append(h11_dialog, Message("user", user_input))
    /\ UNCHANGED <<h11_keep_context, h11_stream, h11_history, h11_appended, h11_gen, notH11Vars>>

\* A streaming turn: chat returns the generator, which interactive_chat
\* starts to consume.
chat_stream(user_input, lines) ==
    /\ h11_stream
    /\ Ask(user_input)
    /\ h11_pc' = "streaming"
    /\ h11_gen' = [lines |-> lines, pos |-> 0, full_response |-> <<>>]
    /\ h11_dialog' = Append(h11_dialog, Message("user", user_input))
    /\ UNCHANGED <<h11_keep_context, h11_stream, h11_history, h11_appended, notH11Vars>>

ContentTexts(frags) ==
    [i \in DOMAIN SelectSeq(frags, LAMBDA f : f.kind = "content") |->
        SelectSeq(frags, LAMBDA f : f.kind = "content")[i].text]

\* One iteration of the loop of _handle_stream_response; an exception ends
\* the generator after the notice, before the history is touched.
stream_line ==
    /\ h11_pc = "streaming"
    /\ h11_gen.pos < Len(h11_gen.lines)
    /\ LET produced == DecodeLine_1_1(h11_gen.lines[h11_gen.pos + 1], h11_gen.pos + 1)
       IN  /\ h11_out' = h11_out \o produced.out
           /\ h11_gen' = [h11_gen EXCEPT !.pos = @ + 1,
                                         !.full_response = @ \o ContentTexts(produced.out)]
           /\ h11_pc' = IF produced.abort THEN "prompt" ELSE "streaming"
           /\ h11_dialog' =
                 IF produced.abort /\ h11_gen.full_response # <<>>
                 THEN Append(h11_dialog, Message("assistant", Join(h11_gen.full_response)))
                 ELSE h11_dialog
    /\ UNCHANGED <<h11_keep_context, h11_stream, h11_history, h11_appended, h11_prior,
                   h11_sent, h11_turns, notH11Vars>>

\* The lines are exhausted: with keep_context and a non-empty full_response
\* the joined reply is stored.
stream_exhausted ==
    /\ h11_pc = "streaming"
    /\ h11_gen.pos = Len(h11_gen.lines)
    /\ h11_pc' = "prompt"
    /\ h11_dialog' =
          IF h11_gen.full_response # <<>>
          THEN Append(h11_dialog, Message("assistant", Join(h11_gen.full_response)))
          ELSE h11_dialog
    /\ IF h11_keep_context /\ h11_gen.full_response # <<>>
       THEN /\ h11_history' = _update_history(h11_history,
                                   Message("assistant", Join(h11_gen.full_response)))
            /\ h11_appended' = Append(h11_appended,
                                   Message("assistant", Join(h11_gen.full_response)))
       ELSE UNCHANGED <<h11_history, h11_appended>>
    /\ UNCHANGED <<h11_keep_context, h11_stream, h11_prior, h11_sent, h11_gen, h11_out,
                   h11_turns, notH11Vars>>

\* The user enters 'exit' or 'quit'.
exit_chat ==
    /\ h11_pc = "prompt"
    /\ h11_pc' = "exited"
    /\ UNCHANGED <<h11_keep_context, h11_stream, h11_history, h11_appended, h11_dialog,
                   h11_prior, h11_sent, h11_gen, h11_out, h11_turns, notH11Vars>>

H11Fresh ==
    /\ h11_history = <<>>
    /\ h11_appended = <<>>
    /\ h11_dialog = <<>>
    /\ h11_prior = <<>>
    /\ h11_sent = <<>>
    /\ h11_gen = NoGenerator11
    /\ h11_out = <<>>
    /\ h11_turns = 0

\* configure_client sets stream and keep_context before interactive_chat.
H11Init ==
    /\ h11_pc = "prompt"
    /\ h11_keep_context \in BOOLEAN
    /\ h11_stream \in BOOLEAN
    /\ H11Fresh

H11Next ==
    \/ \E u \in UserInputs11, a \in AssistantMessages11 : chat_normal(u, a)
    \/ \E u \in UserInputs11 : chat_no_reply(u)
    \/ \E u \in UserInputs11 : chat_empty_choices(u)
    \/ \E u \in UserInputs11, l \in SeqsUpTo(StreamLines11, MaxLines) : chat_stream(u, l)
    \/ stream_line
    \/ stream_exhausted
    \/ exit_chat

H11SpecInit == H11Init /\ ReqIdle /\ HdrIdle /\ ConvIdle /\ C33Idle /\ McIdle /\ GuiIdle /\ SdIdle /\ G12Idle /\ RsIdle /\ G10Idle /\ W36Idle /\ MbIdle /\ R30Idle

H11Spec == H11SpecInit /\ [][H11Next]_vars

\* _update_history on its own, from a new client.
U11Init ==
    /\ h11_pc = "update"
    /\ h11_keep_context = TRUE
    /\ h11_stream = FALSE
    /\ H11Fresh

U11Next == \E a \in AssistantMessages11 : update_history_call(a)

U11SpecInit == U11Init /\ ReqIdle /\ HdrIdle /\ ConvIdle /\ C33Idle /\ McIdle /\ GuiIdle /\ SdIdle /\ G12Idle /\ RsIdle /\ G10Idle /\ W36Idle /\ MbIdle /\ R30Idle

U11Spec == U11SpecInit /\ [][U11Next]_vars

----------------------------------------------------------------------------
(* AIApiClient.send_message and run_conversation (3.0.py) *)

\* The end of an iteration of run_conversation: turn_count += 1, then the
\* check of the limit.
EndOfTurn(answered) ==
    /\ r30_turn_count' = r30_turn_count + 1
    /\ r30_pc' = IF r30_max_turns > 0 /\ r30_turn_count + 1 >= r30_max_turns
                 THEN "ended" ELSE "input"

\* send_message up to the request: the user message is appended and the list
\* itself goes into data, which _make_request serializes before the first
\* attempt.
PostMessage(message) ==
    /\ r30_pc = "input"
    /\ r30_turn_count < MaxTurns30
    /\ r30_sent' = Append(r30_history, Message("user", message))

\* An input that the model answers: send_message appends the reply.
r30_send_answered(message, reply) ==
    /\ PostMessage(message)
    /\ r30_history' = r30_history \o <<Message("user", message), Message("assistant", reply)>>
    /\ r30_replies' = r30_replies + 1
    /\ r30_last' = "reply"
    /\ EndOfTurn(TRUE)
    /\ UNCHANGED <<r30_max_turns, notR30Vars>>

\* An input whose response has no 'choices', or an empty list: "[无回复]".
r30_send_no_choices(message) ==
    /\ PostMessage(message)
    /\ r30_history' = Append(r30_history, Message("user", message))
    /\ r30_last' = "no choices"
    /\ EndOfTurn(FALSE)
    /\ UNCHANGED <<r30_max_turns, r30_replies, notR30Vars>>

\* An input whose request raises out of post (a fatal status, or the retries
\* exhausted): run_conversation prints the error and goes on.
r30_send_raised_RollsBack(message) ==
    /\ PostMessage(message)
    /\ r30_history' = r30_history
    /\ r30_last' = "raised"
    /\ EndOfTurn(FALSE)
    /\ UNCHANGED <<r30_max_turns, r30_replies, notR30Vars>>
r30_send_raised(message) ==
    /\ PostMessage(message)
    /\ r30_history' = Append(r30_history, Message("user", message))
    /\ r30_last' = "raised"
    /\ EndOfTurn(FALSE)
    /\ UNCHANGED <<r30_max_turns, r30_replies, notR30Vars>>

\* The user enters an exit word.
r30_exit ==
    /\ r30_pc = "input"
    /\ r30_pc' = "ended"
    /\ r30_last' = "exit"
    /\ UNCHANGED <<r30_max_turns, r30_history, r30_turn_count, r30_replies, r30_sent, notR30Vars>>

\* run_conversation(endpoint, model, max_turns) after start_conversation().
R30Init ==
    /\ r30_pc = "input"
    /\ r30_max_turns \in 0..MaxTurnsInput
    /\ r30_history = <<>>
    /\ r30_turn_count = 0
    /\ r30_replies = 0
    /\ r30_sent = <<>>
    /\ r30_last = "none"

R30Next ==
    \/ \E t \in Texts, r \in Replies : r30_send_answered(t, r)
    \/ \E t \in Texts : r30_send_no_choices(t)
    \/ \E t \in Texts : r30_send_raised(t)
    \/ r30_exit

R30SpecInit == R30Init /\ ReqIdle /\ HdrIdle /\ ConvIdle /\ C33Idle /\ McIdle /\ GuiIdle /\ SdIdle /\ G12Idle /\ RsIdle /\ G10Idle /\ W36Idle /\ MbIdle /\ H11Idle

R30Spec == R30SpecInit /\ [][R30Next]_vars

----------------------------------------------------------------------------
(* The two clients whose failed request leaves the conversation as it is:
   the DeepSeekVIP.py window and run_conversation of 3.0.py *)

UnansweredInit == GuiSpecInit \/ R30SpecInit

UnansweredNext ==
    \/ GuiNext
    \/ R30Next

UnansweredSpec == UnansweredInit /\ [][UnansweredNext]_vars

----------------------------------------------------------------------------
(* The three conversation accumulators side by side: one of the programs runs *)

ConversationsInit == ConvSpecInit \/ C33SpecInit \/ McSpecInit

ConversationsNext ==
    \/ c33_pc = "idle" /\ mc_pc = "idle" /\ gui_pc = "idle" /\ ConvNext
    \/ c33_pc = "run" /\ C33Next
    \/ McNext

ConversationsSpec == ConversationsInit /\ [][ConversationsNext]_vars

----------------------------------------------------------------------------
(* Reading the log of a call *)

ReqIdx == {i \in DOMAIN log : log[i].ev = "request"}
NumRequests == Cardinality(ReqIdx)
\* The position in the log of the k-th request (1-indexed).
NthRequest(k) == CHOOSE i \in ReqIdx : Cardinality({j \in ReqIdx : j <= i}) = k

RECURSIVE SleptBetween(_, _)
\* Seconds slept at the log positions strictly between lo and hi.
SleptBetween(lo, hi) ==
    IF lo + 1 >= hi THEN 0
    ELSE (IF log[lo + 1].ev = "sleep" THEN log[lo + 1].secs ELSE 0) + SleptBetween(lo + 1, hi)

\* Seconds slept between the previous attempt (or the start of the call) and attempt k.
DelayBefore(k) == SleptBetween(IF k = 1 THEN 0 ELSE NthRequest(k - 1), NthRequest(k))
\* Seconds slept after attempt k, up to the next attempt or the end of the call.
DelayAfter(k) ==
    SleptBetween(NthRequest(k), IF k < NumRequests THEN NthRequest(k + 1) ELSE Len(log) + 1)

Ended == pc \in {"returned", "raised"}
RetryableCodes == {429, 500, 502, 503, 504}
InSuccessRange(e) == ~e.exc /\ 200 <= e.status /\ e.status < 300
RetryableOutcome(e) == e.exc \/ e.status \in RetryableCodes
FatalOutcome(e) == ~e.exc /\ ~InSuccessRange(e) /\ e.status \notin RetryableCodes
AllRequestsReturned(s) == \A i \in ReqIdx : ~log[i].exc /\ log[i].status = s

----------------------------------------------------------------------------
(* Claims about AIApiClient._make_request (checked under Spec) *)

\* C1 (as stated): when every attempt returns the same retryable status, the
\* client issues exactly max_retries requests and then fails, and the delay
\* BEFORE attempt k (1-indexed) is retry_delay * 2^(k-1).
C1_DelayBeforeAttempt ==
    \A s \in RetryableCodes :
        (Ended /\ AllRequestsReturned(s)) =>
            /\ NumRequests = max_retries
            /\ pc = "raised"
            /\ \A k \in 1..NumRequests : DelayBefore(k) = retry_delay * Pow2(k - 1)

\* C1 (amended): when every attempt returns the same retryable status, the
\* client issues exactly max_retries requests and then fails with the
\* exhausted-retries error; nothing is slept before attempt 1, and the delay
\* slept AFTER attempt k (1-indexed), that is before attempt k+1 or before the
\* final raise, is retry_delay * 2^(k-1).
C1_DelayAfterAttempt ==
    \A s \in RetryableCodes :
        (Ended /\ AllRequestsReturned(s)) =>
            /\ NumRequests = max_retries
            /\ pc = "raised"
            /\ result.kind = "exhausted"
            /\ \A k \in 1..NumRequests : DelayAfter(k) = retry_delay * Pow2(k - 1)
            /\ NumRequests >= 1 => DelayBefore(1) = 0

C1_Witness ==
    /\ pc = "raised"
    /\ max_retries >= 3
    /\ retry_delay = 2
    /\ NumRequests = max_retries
    /\ AllRequestsReturned(503)

\* C2: a response whose status is neither in [200,300) nor retryable ends the
\* call at once: the error is raised, nothing is slept and no request follows.
C2_FatalStatusRaisesAtOnce ==
    \A i \in ReqIdx :
        FatalOutcome(log[i]) =>
            /\ i = Len(log)
            /\ pc = "raised"
            /\ result.kind = "fatal"
            /\ result.status = log[i].status

C2_Witness ==
    /\ NumRequests = 2
    /\ max_retries > NumRequests
    /\ log[Len(log)].ev = "request"
    /\ log[Len(log)].status = 404
    /\ pc = "raised"

\* C4: when every one of the max_retries attempts ended in a retryable status
\* or a RequestException, the call never returns a value: it is at the raise
\* after the loop, or has raised the exhausted-retries error.
C4_ExhaustedRaises ==
    (NumRequests = max_retries /\ \A i \in ReqIdx : RetryableOutcome(log[i])) =>
        \/ pc = "loop" /\ attempt = max_retries /\ result = NoResult
        \/ pc = "raised" /\ result.kind = "exhausted"

C4_Witness ==
    /\ pc = "raised"
    /\ result.kind = "exhausted"
    /\ NumRequests = 3
    /\ \E i, j \in ReqIdx : log[i].exc /\ log[j].status = 429

\* C6: when attempt j is the first with a status in [200,300) and all earlier
\* attempts were retryable, attempt j is the last thing the call does (exactly
\* j requests), the caller receives the success result of attempt j, and no
\* earlier failure has ended the call: while only retryable outcomes were seen
\* and attempts remain, the call is still in its loop with nothing raised.
C6_RetriesAbsorbed ==
    /\ \A i \in ReqIdx :
        (InSuccessRange(log[i]) /\ \A j \in ReqIdx : j < i => RetryableOutcome(log[j])) =>
            /\ i = Len(log)
            /\ pc = "returned"
            /\ result.kind \in {"response", "json", "text"}
            /\ result.status = log[i].status
            /\ result.text = log[i].text
    /\ (NumRequests < max_retries /\ \A i \in ReqIdx : RetryableOutcome(log[i])) =>
            pc = "loop" /\ result = NoResult

C6_Witness ==
    /\ pc = "returned"
    /\ NumRequests = 3
    /\ log[1].exc
    /\ \E i \in ReqIdx : log[i].status = 503
    /\ result.status = 204

\* C7: an attempt with a status in [200,300) ends the call successfully: with
\* stream the response itself is returned unparsed; without stream the parsed
\* JSON body, or {"text": raw body} when the body is not JSON. It is never
\* retried (nothing follows it in the log) and never raises.
C7_SuccessResult ==
    \A i \in ReqIdx :
        InSuccessRange(log[i]) =>
            /\ i = Len(log)
            /\ pc = "returned"
            /\ result.status = log[i].status
            /\ result.text = log[i].text
            /\ IF stream THEN result.kind = "response" /\ result.value = ""
               ELSE IF log[i].text \in JsonBodies
                    THEN result.kind = "json" /\ result.value = JsonValue(log[i].text)
                    ELSE result.kind = "text" /\ result.value = ""

C7_Witness ==
    /\ ~stream
    /\ pc = "returned"
    /\ result.kind = "text"
    /\ result.text = "not json"

----------------------------------------------------------------------------
(* Claims about BaseAIApiClient._make_request (checked under BaseSpec) *)

\* C3: in BaseAIApiClient, a response whose status is neither in [200,300) nor
\* retryable makes the call fail on that attempt: the error is raised and no
\* further request is issued.
C3_BaseFatalStatusRaisesAtOnce ==
    \A i \in ReqIdx :
        FatalOutcome(log[i]) =>
            /\ pc = "raised"
            /\ \A j \in ReqIdx : j <= i

\* C5: in BaseAIApiClient, when all max_retries attempts returned a retryable
\* status, the call ends by raising an error; it never returns normally.
C5_BaseExhaustedRaises ==
    ( /\ Ended
      /\ NumRequests >= 1
      /\ NumRequests = max_retries
      /\ \A i \in ReqIdx : ~log[i].exc /\ log[i].status \in RetryableCodes ) =>
        pc = "raised"

\* C8: in BaseAIApiClient with stream=False, a response with a status in
\* [200,300) whose body is not JSON is returned as {"text": raw body}: no
\* request follows it and the call does not end in an error.
C8_BaseInvalidJsonReturnsText ==
    \A i \in ReqIdx :
        (~stream /\ InSuccessRange(log[i]) /\ log[i].text \notin JsonBodies) =>
            /\ i = Len(log)
            /\ pc = "returned"
            /\ result.kind = "text"
            /\ result.text = log[i].text

----------------------------------------------------------------------------
(* Claim about AIApiClient._prepare_headers (checked under HdrSpec) *)

\* C9: the result has Content-Type application/json unless the caller supplied
\* a Content-Type, which is kept; the header named api_key_header has value
\* prefix + " " + api_key when the prefix is non-empty and exactly api_key when
\* it is empty, whatever the caller supplied under that name.
C9_PreparedHeaders ==
    hpc = "done" =>
        /\ "Content-Type" \in DOMAIN final_headers
        /\ final_headers["Content-Type"] =
              IF ~headers.none /\ "Content-Type" \in DOMAIN headers.map
              THEN headers.map["Content-Type"]
              ELSE "application/json"
        /\ api_key_header \in DOMAIN final_headers
        /\ api_key_prefix # "" =>
              final_headers[api_key_header] = api_key_prefix \o " " \o api_key
        /\ api_key_prefix = "" => final_headers[api_key_header] = api_key

C9_Witness ==
    /\ hpc = "done"
    /\ api_key_prefix = ""
    /\ api_key = "sk-1"
    /\ ~headers.none
    /\ api_key_header \in DOMAIN headers.map
    /\ "Content-Type" \in DOMAIN headers.map
    /\ final_headers[api_key_header] = "sk-1"
    /\ final_headers["Content-Type"] = "text/plain"

----------------------------------------------------------------------------
(* Claim about Conversation.can_continue (checked under ConvSpec) *)

\* C10: can_continue is true whenever max_turns = 0, whatever turn_count is,
\* and is false exactly when max_turns > 0 and turn_count >= max_turns.
C10_CanContinue ==
    /\ max_turns = 0 => can_continue
    /\ ~can_continue <=> (max_turns > 0 /\ turn_count >= max_turns)

C10_Witness ==
    /\ max_turns > 0
    /\ turn_count = max_turns
    /\ ~can_continue

----------------------------------------------------------------------------
(* Claims about the conversation accumulators *)

IsPrefix(a, b) == Len(a) <= Len(b) /\ \A i \in DOMAIN a : a[i] = b[i]
NumAssistant(h) == Cardinality({i \in DOMAIN h : h[i].role = "assistant"})
UserMessages(h) == SelectSeq(h, LAMBDA x : x.role = "user")

\* C13 (as stated, checked under PayloadSpec): the payload carries a copy of
\* the message sequence, so every payload already returned still holds the
\* messages it held when it was returned, whatever is appended afterwards.
C13_PayloadIsCopy ==
    \A i \in DOMAIN payloads : PayloadMessages(payloads[i]) = payloads[i].snap

\* C14 (checked under ConversationsSpec): in DeepSeekVIP.py and 3.3.py the
\* payload's messages are exactly the messages appended since the last
\* start_new, in append order, and between two resets the history only grows
\* at its end: each state of it is a prefix of the next.
C14_PayloadIsAppended ==
    /\ [](/\ history = appended
          /\ Conversation33_get_payload.messages = c33_appended)
    /\ [][/\ last_op' # "start_new" => IsPrefix(history, history')
          /\ c33_last_op' # "start_new" => IsPrefix(c33_history, c33_history')]_vars

C14_Witness ==
    /\ last_op = "add_assistant_message"
    /\ Len(history) = MaxHistory
    /\ history[1].role = "user"
    /\ history = appended

\* C15 (checked under ConversationsSpec): in DeepSeekVIP.py and 3.3.py
\* turn_count is the number of assistant messages in the history, so user
\* "hello" then assistant "hi there" on a fresh conversation gives those two
\* messages and turn_count 1.
C15_TurnCountIsAssistantCount ==
    /\ turn_count = NumAssistant(history)
    /\ c33_turn_count = NumAssistant(c33_history)

C15_Witness ==
    /\ c33_pc = "run"
    /\ c33_history = <<Message("user", "hello"), Message("assistant", "hi there")>>
    /\ c33_turn_count = 1

\* C16 (checked under ConversationsSpec): right after start_new every tracked
\* message sequence is empty and turn_count is 0; in css2.py the history then
\* has exactly one empty sequence for each model of the given list.
C16_StartNewResets ==
    /\ last_op = "start_new" => history = <<>> /\ turn_count = 0
    /\ c33_last_op = "start_new" => c33_history = <<>> /\ c33_turn_count = 0
    /\ mc_event = McEvent("new_conversation", "started") =>
          /\ DOMAIN mc_history = Range(mc_models)
          /\ \A m \in DOMAIN mc_history : mc_history[m] = <<>>
          /\ mc_turn_count = 0

C16_Witness ==
    /\ mc_event = McEvent("new_conversation", "started")
    /\ mc_models = <<"deepseek-chat", "doubao">>
    /\ mc_workers # <<>>
    /\ DOMAIN mc_history = {"deepseek-chat", "doubao"}

----------------------------------------------------------------------------
(* Claims about the multi-model window of css2.py (checked under McSpec) *)

\* C12 (as stated): whenever the spin box holds a maximum above 0, turn_count
\* never exceeds it, and a send made once the maximum is reached is rejected.
C12_TurnLimitEnforced ==
    /\ mc_spin > 0 => mc_turn_count <= mc_spin
    /\ ~(/\ mc_event = McEvent("send_message", "sent")
         /\ mc_spin > 0
         /\ mc_turn_count >= mc_spin)

\* C17: after a start_new, a user message is appended to the sequence of every
\* tracked model, the reply of model m is appended to history[m] alone, and
\* any two tracked models hold the same subsequence of user messages.
C17_UserMessagesShared ==
    /\ [](\A m1, m2 \in DOMAIN mc_history :
             UserMessages(mc_history[m1]) = UserMessages(mc_history[m2]))
    /\ [][/\ mc_event' = McEvent("send_message", "sent") =>
                \E t \in Texts : \A m \in Range(mc_models) :
                    mc_history'[m] = Append(mc_history[m], Message("user", t))
          /\ mc_event'.handler = "handle_multi_response"
             /\ mc_event'.outcome \in {"appended", "limit reached"} =>
                \E m \in DOMAIN mc_history, r \in Replies :
                    /\ mc_history'[m] = Append(mc_history[m], Message("assistant", r))
                    /\ \A o \in DOMAIN mc_history \ {m} : mc_history'[o] = mc_history[o]]_vars

C17_Witness ==
    /\ DOMAIN mc_history = {"deepseek-chat", "doubao"}
    /\ mc_history["deepseek-chat"] =
          <<Message("user", "hello"), Message("assistant", "hi there")>>
    /\ mc_history["doubao"] = <<Message("user", "hello")>>

----------------------------------------------------------------------------
(* Claim about the chat window of DeepSeekVIP.py (checked under GuiSpec) *)

\* C11: under every interleaving of the window's events, whenever max_turns
\* is above 0 turn_count never exceeds it, and a send_message made once
\* turn_count has reached max_turns is rejected: it appends nothing to the
\* history and starts no request.
C11_TurnLimitHeld ==
    /\ [](max_turns > 0 => turn_count <= max_turns)
    /\ [][/\ gui_event'.handler = "send_message"
          /\ max_turns > 0
          /\ turn_count >= max_turns
          => /\ gui_event'.outcome \in {"no client", "blank", "limit"}
             /\ history' = history
             /\ gui_thread' = gui_thread]_vars

C11_Witness ==
    /\ gui_event = GuiEvent("send_message", "limit")
    /\ max_turns > 0
    /\ turn_count = max_turns
    /\ gui_thread = "none"

----------------------------------------------------------------------------
(* Claims about the streaming decoders (checked under SdSpec) *)

IsValidChunk(ln) == StartsWithData(ln) /\ JsonLoadsOk(AfterPrefix(ln))
FirstDone == CHOOSE k \in 1..(Len(sd_stream) + 1) :
                 /\ k <= Len(sd_stream) => sd_stream[k] = DoneLine
                 /\ \A j \in 1..(k - 1) : sd_stream[j] # DoneLine
\* The non-empty delta contents of the stream's chunks, in stream order.
RECURSIVE NonEmptyContents(_)
NonEmptyContents(lines) ==
    IF lines = <<>> THEN <<>>
    ELSE (IF DeltaContentOrEmpty(Head(lines)) # ""
          THEN <<DeltaContentOrEmpty(Head(lines))>> ELSE <<>>)
         \o NonEmptyContents(Tail(lines))
OutTexts == [i \in DOMAIN sd_out |-> sd_out[i].text]

\* C18 (as stated): the generators of 1.1.py and 1.2.py, given valid "data: "
\* chunks followed by "data: [DONE]", produce exactly the non-empty delta
\* contents of those chunks, in stream order, and nothing else; the stream of
\* one chunk with content "Hi" and the sentinel yields exactly "Hi".
C18_ExactlyTheContents ==
    /\ sd_decoder \in {"1.1", "1.2"}
    /\ sd_pc = "ended"
    /\ sd_stream # <<>>
    /\ sd_stream[Len(sd_stream)] = DoneLine
    /\ \A k \in 1..(Len(sd_stream) - 1) : IsValidChunk(sd_stream[k])
    => OutTexts = NonEmptyContents(sd_stream)

\* C19 (as stated): in 1.0.py, 1.2.py and 3.6.py no content fragment is
\* produced from a line that follows "data: [DONE]".
C19_NothingAfterDone ==
    sd_decoder \in {"1.0", "1.2", "3.6"} =>
        \A i \in DOMAIN sd_out :
            sd_out[i].kind = "content" => sd_out[i].line < FirstDone

\* C20 (as stated): in 1.1.py, 1.2.py, 3.5.py and 3.6.py a malformed line
\* "data: {not json}" between two valid chunks does not stop the decoding: the
\* content of the chunk after it is delivered.
C20_MalformedLineSkipped ==
    /\ sd_decoder \in {"1.1", "1.2", "3.5", "3.6"}
    /\ sd_pc = "ended"
    => \A k \in 2..(Len(sd_stream) - 1) :
          /\ sd_stream[k] = MalformedLine
          /\ sd_stream[k - 1] = ChunkLine("Hi")
          /\ sd_stream[k + 1] = ChunkLine("Hi")
          => \E i \in DOMAIN sd_out :
                sd_out[i] = Fragment("content", "Hi", k + 1)

\* C21 (as stated, checked under SdSpec): in 1.2.py a line that fails JSON
\* parsing produces no fragment for the caller.
C21_MalformedLineSilent ==
    sd_decoder = "1.2" =>
        \A i \in DOMAIN sd_out :
            sd_out[i].line \in DOMAIN sd_stream =>
                ~(/\ sd_stream[sd_out[i].line].prefix
                  /\ sd_stream[sd_out[i].line].body = "{not json}")

----------------------------------------------------------------------------
(* Claims about the context of 1.2.py (checked under G12Spec) *)

\* C28 (as stated): after n consecutive successful non-streaming generate
\* calls with inherit_context=True, each with exactly one new user message u_i
\* and reply a_i, self.context is u_1, a_1, ..., u_n, a_n.
C28_ContextIsTheConversation ==
    g12_clean => g12_context = g12_turns

\* C29: generate with inherit_context=False sends exactly the caller's
\* messages and leaves self.context as it was, streaming or not, whether the
\* call succeeds or fails (the consumption of its generator included).
C29_NoInheritLeavesContext ==
    [][g12_call'.outcome # "none" /\ ~g12_call'.inherit =>
          /\ g12_context' = g12_context
          /\ g12_sent' = g12_call'.messages]_vars

C29_Witness ==
    /\ g12_call.outcome = "consumed"
    /\ ~g12_call.inherit
    /\ g12_context # <<>>
    /\ g12_sent = g12_call.messages
    /\ g12_sent # <<>>

\* C30 (as stated): from the same context, with the same request messages and
\* the same reply text, a streaming call whose generator is consumed and a
\* non-streaming call leave self.context equal (inherit_context=True).
C30_StreamEqualsNonStream ==
    \A m \in RequestMessages12, ch \in StreamReplies :
        StreamContext(FullContent(ch), TRUE)
        = _update_context(_build_request_messages(m, TRUE),
                          ResponseData(<<Message("assistant", FullContent(ch))>>), TRUE)

----------------------------------------------------------------------------
(* Claim about the Doubao stream handlers (checked under RsSpec) *)

NonEmptyText(f) == IF f.kind = "str" THEN f.text ELSE <<>>
FragmentsOf(k) == {i \in DOMAIN rs_out : rs_out[i].chunk = k}

\* C22: for every chunk taken, the fragment emitted is reasoning_content
\* followed by content when both are present, either one alone when only one
\* is present and non-empty, and nothing is emitted when both are absent or
\* empty.
C22_ReasoningBeforeContent ==
    \A k \in 1..rs_pos :
        IF /\ rs_chunks[k].choices
           /\ NonEmptyText(rs_chunks[k].reasoning_content)
              \o NonEmptyText(rs_chunks[k].content) # <<>>
        THEN /\ Cardinality(FragmentsOf(k)) = 1
             /\ \A i \in FragmentsOf(k) :
                   rs_out[i].text = NonEmptyText(rs_chunks[k].reasoning_content)
                                    \o NonEmptyText(rs_chunks[k].content)
        ELSE FragmentsOf(k) = {}

C22_Witness ==
    /\ rs_pc = "ended"
    /\ rs_handler = "3.6"
    /\ rs_chunks = <<DeltaChunk(Str(<<"think">>), Str(<<"Hi">>)), DeltaChunk(None, Str(<<>>))>>
    /\ rs_out = <<Emitted(<<"think", "Hi">>, 1)>>

----------------------------------------------------------------------------
(* Claim about DeepSeekClient.generate of 1.0.py (checked under G10Spec) *)

\* C26: when requests.post raises before any response exists, the handler
\* reads the unbound variable response, so the call does not return the
\* {"error": ...} value it returns for HTTP-status failures but fails with an
\* uncaught error of another kind.
C26_UnboundResponse ==
    g10_pc \in {"returned", "raised"} =>
        /\ g10_outcome.exc =>
              /\ g10_pc = "raised"
              /\ g10_result = G10Result("exception", "UnboundLocalError")
        /\ ~g10_outcome.exc /\ g10_outcome.status >= 400 =>
              /\ g10_pc = "returned"
              /\ g10_result = G10Result("dict", "error")

C26_Witness ==
    /\ g10_outcome = RequestException
    /\ g10_pc = "raised"
    /\ ~g10_bound

----------------------------------------------------------------------------
(* Claims about the fan-out windows *)

\* C23 (as stated, checked under W36Spec): one worker is started per selected
\* model, each with its own client, and in the transcript the responses of
\* one model appear in the order in which that model's requests were issued.
C23_OrderedWithinModel ==
    /\ \A i, j \in DOMAIN w36_workers :
          i # j => /\ w36_workers[i].client # w36_workers[j].client
                   /\ ~(/\ w36_workers[i].req = w36_workers[j].req
                        /\ w36_workers[i].model = w36_workers[j].model)
    /\ \A i, j \in DOMAIN w36_transcript :
          /\ i < j
          /\ w36_transcript[i].who = w36_transcript[j].who
          /\ w36_transcript[i].who \in Range(Models36)
          => w36_transcript[i].req <= w36_transcript[j].req

\* C25 (as stated, checked under McSpec): every request dispatched through
\* ApiRequestThread ends with exactly one of the signals finished and error:
\* a thread leaves the running ones only through the handler of its signal.
C25_OneSignalPerRequest ==
    [][Len(mc_workers') < Len(mc_workers) =>
          /\ Len(mc_workers') = Len(mc_workers) - 1
          /\ mc_event'.handler \in {"handle_multi_response", "handle_multi_error"}]_vars

\* C27 (as stated, checked under W36Spec): the messages sent to model m are
\* m's whole prior exchange since the last reset (the earlier user messages
\* and m's own replies, in order) followed by the new user message.
C27_WholeExchangeSent ==
    \A i \in DOMAIN w36_workers :
        /\ Len(w36_workers[i].messages) = Len(w36_workers[i].prior) + 1
        /\ \A k \in DOMAIN w36_workers[i].prior :
              w36_workers[i].messages[k] = w36_workers[i].prior[k]
        /\ w36_workers[i].messages[Len(w36_workers[i].messages)].role = "user"

\* C24 (as stated, checked under MbSpec): the request body the worker of
\* model m serializes is history[m] as it was when send_message dispatched
\* the worker, whatever the window did in between.
C24_BodyIsDispatchedHistory ==
    \A i \in DOMAIN mb_workers :
        mb_workers[i].posted =>
            /\ Len(mb_workers[i].body) = Len(mb_workers[i].dispatched)
            /\ \A k \in DOMAIN mb_workers[i].body :
                  /\ mb_workers[i].body[k][2] = mb_workers[i].dispatched[k].role
                  /\ mb_workers[i].body[k][4] = mb_workers[i].dispatched[k].content

----------------------------------------------------------------------------
(* Claims about the retry loop's sleeps and termination *)

RECURSIVE SumSecs(_)
SumSecs(events) ==
    IF events = <<>> THEN 0 ELSE Head(events).secs + SumSecs(Tail(events))
Sleeps(events) == SelectSeq(events, LAMBDA e : e.ev = "sleep")
Requests(events) == SelectSeq(events, LAMBDA e : e.ev = "request")
RECURSIVE TwoToThe(_)
TwoToThe(n) == IF n = 0 THEN 1 ELSE 2 * TwoToThe(n - 1)
FailedRetryable(e) ==
    /\ e.ev = "request"
    /\ e.exc \/ e.status \in {429, 500, 502, 503, 504}

\* C39: in AIApiClient._make_request a backoff sleep follows every failed
\* retryable attempt, the last one included; when the retries are exhausted
\* the client has slept max_retries times, retry_delay * (2^max_retries - 1)
\* seconds in all, before it raises.
C39_SleepAfterEveryFailure ==
    /\ \A i \in DOMAIN log :
          FailedRetryable(log[i]) => i < Len(log) /\ log[i + 1].ev = "sleep"
    /\ (pc = "raised" /\ result.kind = "exhausted") =>
          /\ Len(Sleeps(log)) = max_retries
          /\ SumSecs(log) = retry_delay * (TwoToThe(max_retries) - 1)
C39_Witness ==
    /\ pc = "raised"
    /\ result.kind = "exhausted"
    /\ max_retries >= 2
    /\ retry_delay >= 1
    /\ \E i \in DOMAIN log : log[i].ev = "request" /\ log[i].exc
    /\ \E i \in DOMAIN log : log[i].ev = "request" /\ ~log[i].exc

\* C40: every call of AIApiClient._make_request ends, by returning or
\* raising, after at most max_retries HTTP requests, whatever the attempts'
\* outcomes; with max_retries = 0 it issues no request and ends with the
\* exhausted-retries error.
C40_Terminates ==
    /\ [](Len(Requests(log)) <= max_retries)
    /\ []((max_retries = 0 /\ pc # "loop") =>
             (log = <<>> /\ pc = "raised" /\ result.kind = "exhausted"))
    /\ <>(pc \in {"returned", "raised"})
C40_Witness ==
    /\ max_retries = 0
    /\ pc = "raised"
    /\ result.kind = "exhausted"
    /\ log = <<>>

----------------------------------------------------------------------------
(* Claims about the 1.1.py client *)

\* C31: after every _update_history call the history holds at most 10
\* messages, and once more than 10 were appended it holds exactly the 10 most
\* recently appended ones, in their order.
C31_HistoryIsLastTen ==
    /\ Len(h11_history) <= 10
    /\ Len(h11_appended) <= 10 => h11_history = h11_appended
    /\ Len(h11_appended) > 10 =>
          /\ Len(h11_history) = 10
          /\ \A k \in 1..10 : h11_history[k] = h11_appended[Len(h11_appended) - 10 + k]
C31_Witness ==
    /\ Len(h11_appended) = 12
    /\ h11_appended[1] # h11_appended[11]
    /\ h11_appended[2] # h11_appended[12]
    /\ Len(h11_history) = 10

\* C32 (as stated, checked under H11Spec): with keep_context, once a stream
\* that delivered at least one content chunk and then `data: [DONE]` is
\* consumed, the last entry of history is the assistant message made of the
\* delivered chunks, and nothing but model content was yielded.
C32_StreamReplyStored ==
    (/\ h11_keep_context
     /\ h11_stream
     /\ h11_pc = "prompt"
     /\ h11_turns > 0
     /\ h11_gen.lines # <<>>
     /\ h11_gen.lines[Len(h11_gen.lines)] = DoneLine
     /\ \A k \in 1..(Len(h11_gen.lines) - 1) : h11_gen.lines[k].body = "content"
     /\ Len(h11_gen.lines) >= 2)
    => /\ h11_history # <<>>
       /\ h11_history[Len(h11_history)].role = "assistant"
       /\ h11_history[Len(h11_history)].content =
             [k \in 1..(Len(h11_gen.lines) - 1) |-> h11_gen.lines[k].content]
       /\ \A k \in DOMAIN h11_out : h11_out[k].kind = "content"

\* C33 (as stated, checked under H11Spec): with keep_context the messages
\* sent on a turn are the earlier user inputs and assistant replies of the
\* session, in conversation order, followed by the turn's user input.
C33_WholeDialogSent ==
    (h11_keep_context /\ h11_turns > 0 /\ Len(h11_prior) < 10) =>
        /\ Len(h11_sent) = Len(h11_prior) + 1
        /\ \A k \in DOMAIN h11_prior : h11_sent[k] = h11_prior[k]
        /\ h11_sent[Len(h11_sent)].role = "user"

----------------------------------------------------------------------------
(* Claims about failed requests, resets and requests in flight *)

\* C34 (as stated, checked under R30Spec): in run_conversation the turn
\* counter counts assistant replies only, so a send whose request raised
\* does not consume a turn; with max_turns > 0 the loop ends by the limit
\* once max_turns replies were received, with max_turns = 0 only on an exit
\* word.
C34_CountsAssistantTurns ==
    /\ r30_turn_count = r30_replies
    /\ (r30_pc = "ended" /\ r30_last # "exit") =>
          (r30_max_turns > 0 /\ r30_replies = r30_max_turns)
    /\ (r30_pc = "ended" /\ r30_max_turns = 0) => r30_last = "exit"

\* C35: a failed request does not roll the conversation back.  In
\* DeepSeekVIP.py handle_api_error leaves history and turn_count as they are,
\* the user message of a request in flight is the last of the history, and
\* the next request's messages (the history after the new user message) hold
\* all of it; in 3.0.py a send that raised leaves the user message as the
\* last of conversation_history, posts it, adds no reply, and the next send
\* posts it again before the new message.
C35_NoRollback ==
    /\ [](gui_thread = "running" /\ history # <<>> => history[Len(history)].role = "user")
    /\ [][(gui_thread = "running" /\ gui_thread' = "none"
              /\ gui_event'.handler = "handle_api_error")
          => (history' = history /\ turn_count' = turn_count)]_vars
    /\ [][(gui_thread = "none" /\ gui_thread' = "running")
          => (IsPrefix(history, history') /\ Len(history') = Len(history) + 1)]_vars
    /\ [](r30_last = "raised" =>
             /\ r30_history # <<>>
             /\ r30_history[Len(r30_history)].role = "user"
             /\ r30_sent = r30_history)
    /\ [][(r30_turn_count' # r30_turn_count /\ r30_last' = "raised")
          => (/\ Len(r30_history') = Len(r30_history) + 1
              /\ IsPrefix(r30_history, r30_history')
              /\ r30_replies' = r30_replies)]_vars
    /\ [][r30_turn_count' # r30_turn_count
          => (IsPrefix(r30_history, r30_sent') /\ Len(r30_sent') = Len(r30_history) + 1)]_vars
C35_Witness ==
    /\ r30_last = "reply"
    /\ Len(r30_history) = 3
    /\ r30_history[1].role = "user"
    /\ r30_history[2].role = "user"
    /\ r30_history[3].role = "assistant"
    /\ r30_sent = SubSeq(r30_history, 1, 2)

\* C36 (as stated, checked under GuiSpec): at most one API request is in
\* flight at any time.  test_api_connection issues its GET on the UI thread
\* inside the handler, so the statement asks that a request is dispatched,
\* and a test is made, only while no request is in flight.
C36_OneRequestInFlight ==
    /\ [][(Len(history') = Len(history) + 1 /\ history'[Len(history')].role = "user")
          => gui_thread = "none"]_vars
    /\ [][gui_event'.handler = "test_api_connection" => gui_thread = "none"]_vars

\* C36 (amended): at most one chat request (ApiRequestThread) is in flight at
\* any time: from its dispatch until handle_api_response or handle_api_error
\* runs the send button is disabled and the input is read-only and empty, so
\* that neither a click nor the Return key dispatches another one; only the
\* two handlers end that state.
C36_OneChatRequestInFlight ==
    /\ [](gui_thread = "running" =>
             (~gui_enabled /\ gui_input \in {"", " "}))
    /\ [][(Len(history') = Len(history) + 1 /\ history'[Len(history')].role = "user")
          => (gui_thread = "none" /\ gui_thread' = "running" /\ ~gui_enabled')]_vars
    /\ [][((gui_thread = "running" /\ gui_thread' = "none") \/ (~gui_enabled /\ gui_enabled'))
          => gui_event'.handler \in {"handle_api_response", "handle_api_error"}]_vars
C36_Witness ==
    /\ gui_thread = "running"
    /\ ~gui_enabled
    /\ gui_event.handler = "send_message"
    /\ gui_event.outcome = "blank"

\* C37 (as stated, checked under GuiSpec): after start_new_chat the history
\* holds only messages of exchanges begun after it.  Nothing can be sent
\* while a request is in flight, so the reply to a request from before the
\* reset is the one that would arrive on the emptied history: the first
\* message of a history is a user message, and turn_count only rises after
\* a user message of the same conversation.
C37_NoStaleReply ==
    /\ [][(history = <<>> /\ history' # <<>>) => history'[1].role = "user"]_vars
    /\ [][turn_count' > turn_count =>
             (history # <<>> /\ history[Len(history)].role = "user")]_vars

\* C38 (as stated, checked under McSpec): a send_message issued before any
\* new_conversation is rejected: nothing is appended, no thread is started,
\* and add_user_message is never reached for a model without a sequence in
\* history.
C38_SendBeforeStartRejected ==
    /\ ~(mc_event.handler = "send_message" /\ mc_event.outcome = "KeyError")
    /\ mc_pc # "crashed"

====
